---- MODULE Spec2Model ----
(***************************************************************************)
(* Control-flow engine of the radar chatbot: the per-user debounce         *)
(* scheduler of app/main.py, the tool loop of BaseChatbotService, the      *)
(* interactive menu of MessageHandler, the sleep-based debounce of         *)
(* ChatbotService and BaseChatbotService, the turn list handed to the AI   *)
(* provider, process_message of ChatbotService (interactive reply or       *)
(* queue), the tool loop over successive turns, the debounce timer of      *)
(* services/conversation_manager.py with process_message_async, and the    *)
(* daily greeting of app/main.py.                                          *)
(*                                                                         *)
(* Text is a sequence of one-character strings.  created_at is an integer  *)
(* stamp: the code compares the ISO-8601 UTC strings of _extract_created_at *)
(* lexicographically, which orders them as the instants they denote.       *)
(***************************************************************************)
EXTENDS Integers, Sequences, FiniteSets, TLC

\* ---------------------------------------------------------------- bounds
Users == {"u1"}
MaxMsgs == 2
\* the text of the i-th message received: texts are opaque to the scheduler,
\* distinct ones show the order of a join
Letters == <<"a", "b", "c", "d", "e", "f">>
TextOf(i) == <<Letters[i]>>
\* created_at values a message can carry: two instants give every relative
\* order of two messages (earlier, equal, later)
Stamps == {1, 2}

VARIABLES
    inbound,               \* every message recorded so far, by row id (ghost log)
    temp_messages,         \* temporary_messages table: row ids, insertion order
    conversation_context,  \* conversation_context table, insertion order
    _generation_counter,   \* per-user generation token
    pending_tasks,         \* pending_tasks: user -> generation of its entry, 0 = no entry
    tasks,                 \* user -> the _debounce_runner tasks created, by generation
    webhooks,              \* webhook calls suspended between record and schedule
    \* one turn of BaseChatbotService._process_with_mcp
    mcp_pc,                \* the await the turn is suspended at, or how it ended
    iteration,             \* rounds begun
    tool_call_history,     \* signatures of the calls executed in this turn
    messages,              \* the running message list, from its latest assistant
                           \* message on (the list only grows: what precedes it
                           \* is never read or changed by the loop)
    tool_calls,            \* assistant_message.tool_calls of the current round
    tool_index,            \* position of the for loop in tool_calls
    mcp_result,            \* the text returned, "" while there is none
    provider_calls,        \* chat_with_tools calls made in this turn (ghost)
    loop_signature,        \* the signature loop detection stopped at (ghost)
    raised,                \* the call whose exception ended the turn (ghost)
    store_notified,        \* how the turn's last notification of a store went (ghost)
    \* ConversationManager and MessageHandler
    conversation_state,    \* ConversationManager.conversation_state: user -> state dict
    last,                  \* the text handled last and what handling it did (ghost)
    \* ChatbotService / BaseChatbotService: debounce by a sleep per message
    service,               \* the class of the service the handler was built with
    requests,              \* the process_message calls made, in order of arrival
    outbox,                \* the texts send_message delivered
    \* the turn list of one debounced turn
    turn,                  \* the list being built and what was passed to the provider
    \* the tool loop, turn after turn
    earlier,               \* whose turn the present one is, how the turn before it
                           \* ended and what each user's latest ended turn executed
                           \* last (ghost)
    \* services/conversation_manager.py and modules/message_processor
    conversation_manager   \* the ConversationManager instance: active_conversations,
                           \* the debounce tasks created, and (ghost) the clock and
                           \* what process_message_async did last

debounce_vars == <<inbound, temp_messages, conversation_context, _generation_counter,
                   pending_tasks, tasks, webhooks>>
mcp_vars == <<mcp_pc, iteration, tool_call_history, messages, tool_calls, tool_index,
              mcp_result, provider_calls, loop_signature, raised, store_notified>>
menu_vars == <<conversation_state, last>>
service_vars == <<service, requests, outbox, turn, earlier, conversation_manager>>
vars == <<debounce_vars, mcp_vars, menu_vars, service_vars>>

\* ------------------------------------------------------- pure functions
RECURSIVE Join(_)
\* " ".join(texts)
Join(texts) ==
    IF texts = <<>> THEN <<>>
    ELSE IF Len(texts) = 1 THEN texts[1]
    ELSE texts[1] \o <<" ">> \o Join(Tail(texts))

RECURSIVE LStrip(_)
LStrip(s) == IF s # <<>> /\ Head(s) = " " THEN LStrip(Tail(s)) ELSE s

RECURSIVE RStrip(_)
RStrip(s) ==
    IF s # <<>> /\ s[Len(s)] = " " THEN RStrip(SubSeq(s, 1, Len(s) - 1)) ELSE s

\* str.strip()
Strip(s) == RStrip(LStrip(s))

\* _sort_key of a row
_sort_key(id) == inbound[id].created_at

RECURSIVE InsertSorted_before(_, _)
\* an insertion that puts a row before the rows of equal key
InsertSorted_before(s, id) ==
    IF s = <<>> THEN <<id>>
    ELSE IF _sort_key(id) <= _sort_key(Head(s)) THEN <<id>> \o s
    ELSE <<Head(s)>> \o InsertSorted_before(Tail(s), id)

RECURSIVE InsertSorted(_, _)
InsertSorted(s, id) ==
    IF s = <<>> THEN <<id>>
    ELSE IF _sort_key(id) < _sort_key(Head(s)) THEN <<id>> \o s
    ELSE <<Head(s)>> \o InsertSorted(Tail(s), id)

RECURSIVE sorted(_)
\* sorted(messages, key=_sort_key): stable, ascending
sorted(s) ==
    IF s = <<>> THEN <<>>
    ELSE InsertSorted(sorted(SubSeq(s, 1, Len(s) - 1)), s[Len(s)])

RECURSIVE SelectIds(_, _)
SelectIds(s, u) ==
    IF s = <<>> THEN <<>>
    ELSE IF inbound[Head(s)].user = u THEN <<Head(s)>> \o SelectIds(Tail(s), u)
    ELSE SelectIds(Tail(s), u)

\* SupabaseService.get_temp_messages: the user's rows, created_at ascending
get_temp_messages(u) == sorted(SelectIds(temp_messages, u))

RECURSIVE TextsOf(_)
TextsOf(ids) ==
    IF ids = <<>> THEN <<>>
    ELSE IF inbound[Head(ids)].content # <<>>
         THEN <<inbound[Head(ids)].content>> \o TextsOf(Tail(ids))
         ELSE TextsOf(Tail(ids))

NoneValue == [none |-> TRUE]

\* _consolidate_temp_messages
_consolidate_temp_messages(temp_rows) ==
    IF temp_rows = <<>> THEN NoneValue
    ELSE LET ordered == sorted(temp_rows)
             texts == TextsOf(ordered)
         IN IF texts = <<>> THEN NoneValue
            ELSE [role |-> inbound[ordered[1]].role,
                  content |-> Strip(Join(texts)),
                  created_at |-> inbound[ordered[1]].created_at]

RECURSIVE Remove(_, _)
Remove(s, ids) ==
    IF s = <<>> THEN <<>>
    ELSE IF Head(s) \in ids THEN Remove(Tail(s), ids)
    ELSE <<Head(s)>> \o Remove(Tail(s), ids)

Range(s) == {s[i] : i \in 1..Len(s)}

\* ------------------------------------------------------------ the state
ReplyText == <<"r">>

\* A _debounce_runner task.  pc is the await it is suspended at; the effect of
\* the awaited call on the store is taken when the call is made.  Ghost
\* fields: msg (the row whose webhook armed the timer), burst (the generation
\* that opened its burst), after_done (armed after the previous timer's run
\* had completed), seen (the generation found in pending_tasks when the delay
\* elapsed), called (process_debounced_messages was called).
NewTask(id, burst, after_done) ==
    [pc |-> "sleep", due |-> FALSE, cancelled |-> FALSE, msg |-> id, burst |-> burst,
     after_done |-> after_done, seen |-> 0, called |-> FALSE, fetched |-> <<>>,
     consolidated |-> NoneValue, replied |-> FALSE,
     logged_user |-> FALSE, logged_reply |-> FALSE, deleted |-> FALSE]

InitDebounce ==
    /\ inbound = <<>>
    /\ temp_messages = <<>>
    /\ conversation_context = <<>>
    /\ _generation_counter = [u \in Users |-> 0]
    /\ pending_tasks = [u \in Users |-> 0]
    /\ tasks = [u \in Users |-> <<>>]
    /\ webhooks = {}

Task(u, g) == tasks[u][g]
Generations(u) == 1..Len(tasks[u])

SetTask(u, g, t) == tasks' = [tasks EXCEPT ![u][g] = t]

\* a finally clause that drops the user's entry whatever its generation
Finally_unconditional(u, g) == pending_tasks' = [pending_tasks EXCEPT ![u] = 0]

\* the finally clause of _debounce_runner
Finally(u, g) ==
    IF pending_tasks[u] # 0 /\ pending_tasks[u] = g
    THEN pending_tasks' = [pending_tasks EXCEPT ![u] = 0]
    ELSE UNCHANGED pending_tasks

\* ------------------------------------------------------------- webhook
\* webhook up to the end of record_temp_message
Webhook(u, text, created_at) ==
    /\ Len(inbound) < MaxMsgs
    /\ inbound' = Append(inbound, [user |-> u, role |-> "user", content |-> text,
                                 created_at |-> created_at])
    /\ temp_messages' = Append(temp_messages, Len(inbound) + 1)
    /\ webhooks' = webhooks \cup {Len(inbound) + 1}
    /\ UNCHANGED <<conversation_context, _generation_counter, pending_tasks, tasks>>

\* a scheduler that never cancels the task it replaces
CancelExisting_never(ts, existing) == ts

\* a scheduler that cancels only a task still asleep
CancelExisting_asleep(ts, existing) ==
    IF existing # 0 /\ ts[existing].pc = "sleep"
    THEN [ts EXCEPT ![existing].cancelled = TRUE, ![existing].pc = "cancelling",
                    ![existing].due = FALSE]
    ELSE ts

\* existing_task.cancel() when the entry's task is not done: the task takes no
\* further step of its own but the delivery of CancelledError at its await
CancelExisting(ts, existing) ==
    IF existing # 0 /\ ts[existing].pc # "done"
    THEN [ts EXCEPT ![existing].cancelled = TRUE, ![existing].pc = "cancelling",
                    ![existing].due = FALSE]
    ELSE ts

\* schedule_user_processing, called by the webhook that recorded row id
schedule_user_processing(id) ==
    LET u == inbound[id].user
        generation == _generation_counter[u] + 1
        existing == pending_tasks[u]
        prev == _generation_counter[u]
        \* ghost: the burst goes on when the previous timer has not elapsed yet
        burst == IF prev # 0 /\ tasks[u][prev].pc = "sleep" /\ ~tasks[u][prev].due
                    /\ ~tasks[u][prev].cancelled
                 THEN tasks[u][prev].burst ELSE generation
        after_done == prev # 0 /\ tasks[u][prev].pc = "done" /\ tasks[u][prev].called
                         /\ ~tasks[u][prev].cancelled
    IN /\ id \in webhooks
       /\ webhooks' = webhooks \ {id}
       /\ _generation_counter' = [_generation_counter EXCEPT ![u] = generation]
       /\ tasks' = [tasks EXCEPT ![u] = Append(CancelExisting(@, existing), NewTask(id, burst, after_done))]
       /\ pending_tasks' = [pending_tasks EXCEPT ![u] = generation]
       /\ UNCHANGED <<inbound, temp_messages, conversation_context>>

\* ----------------------------------------------------- _debounce_runner
Live(u, g) == g \in Generations(u) /\ Task(u, g).pc # "done" /\ ~Task(u, g).cancelled

\* asyncio.sleep(DEBOUNCE_SECONDS) elapses
SleepElapses(u, g) ==
    /\ g \in Generations(u)
    /\ Task(u, g).pc = "sleep" /\ ~Task(u, g).due
    /\ SetTask(u, g, [Task(u, g) EXCEPT !.due = TRUE])
    /\ UNCHANGED <<inbound, temp_messages, conversation_context, _generation_counter,
                   pending_tasks, webhooks>>

\* CancelledError reaches the task at its await: re-raised, finally runs
Cancelled(u, g) ==
    /\ g \in Generations(u)
    /\ Task(u, g).cancelled /\ Task(u, g).pc # "done"
    /\ SetTask(u, g, [Task(u, g) EXCEPT !.pc = "done"])
    /\ Finally(u, g)
    /\ UNCHANGED <<inbound, temp_messages, conversation_context, _generation_counter, webhooks>>

\* resumes after the sleep: the generation check, then process_debounced_messages
\* up to its first await (get_temp_messages)
Fire(u, g) ==
    /\ Live(u, g)
    /\ Task(u, g).pc = "sleep" /\ Task(u, g).due
    /\ IF pending_tasks[u] = 0 \/ pending_tasks[u] # g
       THEN /\ SetTask(u, g, [Task(u, g) EXCEPT !.pc = "done", !.seen = pending_tasks[u]])
            /\ Finally(u, g)
       ELSE /\ SetTask(u, g, [Task(u, g) EXCEPT
                     !.called = TRUE, !.seen = pending_tasks[u],
                     !.fetched = get_temp_messages(u),
                     !.pc = "get_temp"])
            /\ UNCHANGED pending_tasks
    /\ UNCHANGED <<inbound, temp_messages, conversation_context, _generation_counter, webhooks>>

\* temp_messages fetched: return when empty; else get_recent_messages is read,
\* the history is built, and _build_product_context / generate_response is
\* awaited: it returns a reply or raises.  (A read of the store that raises
\* ends the run the same way, with no effect on the store.)
AfterGetTemp(u, g) ==
    /\ Live(u, g)
    /\ Task(u, g).pc = "get_temp"
    /\ IF Task(u, g).fetched = <<>>
       THEN /\ SetTask(u, g, [Task(u, g) EXCEPT !.pc = "done"])
            /\ Finally(u, g)
       ELSE /\ \E ok \in BOOLEAN :
                 SetTask(u, g, [Task(u, g) EXCEPT
                     !.consolidated = _consolidate_temp_messages(Task(u, g).fetched),
                     !.pc = IF ok THEN "generate" ELSE "raising"])
            /\ UNCHANGED pending_tasks
    /\ UNCHANGED <<inbound, temp_messages, conversation_context, _generation_counter, webhooks>>

\* log_message: save_message appends the row; its failure is logged and swallowed
log_message(u, content, role, ok) ==
    conversation_context' =
        IF ok THEN Append(conversation_context, [user |-> u, role |-> role, content |-> content])
        ELSE conversation_context

\* response_text obtained; the consolidated user turn is logged
AfterGenerate(u, g) ==
    /\ Live(u, g)
    /\ Task(u, g).pc = "generate"
    /\ LET consolidated == Task(u, g).consolidated
       IN \E ok \in BOOLEAN :
            IF consolidated # NoneValue
            THEN /\ log_message(u, consolidated.content, consolidated.role, ok)
                 /\ SetTask(u, g, [Task(u, g) EXCEPT
                        !.replied = TRUE, !.logged_user = ok, !.pc = "log_user"])
            ELSE /\ log_message(u, ReplyText, "assistant", ok)
                 /\ SetTask(u, g, [Task(u, g) EXCEPT
                        !.replied = TRUE, !.logged_reply = ok, !.pc = "log_reply"])
    /\ UNCHANGED <<inbound, temp_messages, _generation_counter, pending_tasks, webhooks>>

\* the assistant reply is logged
AfterLogUser(u, g) ==
    /\ Live(u, g)
    /\ Task(u, g).pc = "log_user"
    /\ \E ok \in BOOLEAN :
          /\ log_message(u, ReplyText, "assistant", ok)
          /\ SetTask(u, g, [Task(u, g) EXCEPT !.logged_reply = ok, !.pc = "log_reply"])
    /\ UNCHANGED <<inbound, temp_messages, _generation_counter, pending_tasks, webhooks>>

\* temp_ids of process_debounced_messages
temp_ids(t) == IF t.consolidated # NoneValue THEN t.fetched ELSE <<>>

\* a delete that reports success and removes no row
AfterLogReply_keeps(u, g) ==
    /\ Live(u, g)
    /\ Task(u, g).pc = "log_reply"
    /\ SetTask(u, g, [Task(u, g) EXCEPT !.deleted = TRUE, !.pc = "delete"])
    /\ UNCHANGED <<inbound, temp_messages, conversation_context, _generation_counter,
                   pending_tasks, webhooks>>

\* a delete of every pending row of the user, fetched by the run or not
AfterLogReply_by_user(u, g) ==
    /\ Live(u, g)
    /\ Task(u, g).pc = "log_reply"
    /\ temp_messages' = Remove(temp_messages, Range(get_temp_messages(u)))
    /\ SetTask(u, g, [Task(u, g) EXCEPT !.deleted = TRUE, !.pc = "delete"])
    /\ UNCHANGED <<inbound, conversation_context, _generation_counter, pending_tasks, webhooks>>

\* SupabaseService.delete_temp_messages: nothing to do for no ids, else the rows
\* go or the request raises
AfterLogReply(u, g) ==
    /\ Live(u, g)
    /\ Task(u, g).pc = "log_reply"
    /\ LET ids == temp_ids(Task(u, g))
       IN \E ok \in BOOLEAN :
            /\ ids = <<>> => ok
            /\ temp_messages' = IF ok THEN Remove(temp_messages, Range(ids)) ELSE temp_messages
            /\ SetTask(u, g, [Task(u, g) EXCEPT
                   !.deleted = ok, !.pc = IF ok THEN "delete" ELSE "raising"])
    /\ UNCHANGED <<inbound, conversation_context, _generation_counter, pending_tasks, webhooks>>

\* send_whatsapp_message (its failure is swallowed)
AfterDelete(u, g) ==
    /\ Live(u, g)
    /\ Task(u, g).pc = "delete"
    /\ SetTask(u, g, [Task(u, g) EXCEPT !.pc = "send"])
    /\ UNCHANGED <<inbound, temp_messages, conversation_context, _generation_counter,
                   pending_tasks, webhooks>>

\* set_presence(user_id, "paused") (its failure is swallowed), then
\* process_debounced_messages returns; finally
AfterSend(u, g) ==
    /\ Live(u, g)
    /\ Task(u, g).pc = "send"
    /\ SetTask(u, g, [Task(u, g) EXCEPT !.pc = "done"])
    /\ Finally(u, g)
    /\ UNCHANGED <<inbound, temp_messages, conversation_context, _generation_counter, webhooks>>

\* an awaited call raised: except Exception logs it; finally
Raised(u, g) ==
    /\ Live(u, g)
    /\ Task(u, g).pc = "raising"
    /\ SetTask(u, g, [Task(u, g) EXCEPT !.pc = "done"])
    /\ Finally(u, g)
    /\ UNCHANGED <<inbound, temp_messages, conversation_context, _generation_counter, webhooks>>

\* ------------------------------------ BaseChatbotService._process_with_mcp
max_iterations == 10
\* tool calls one provider response can carry
MaxToolCalls == 2

\* The arguments of a tool call are a JSON text: the key/value pairs in the
\* order the provider wrote them, or a text that is not JSON.
Json(pairs) == [valid |-> TRUE, pairs |-> pairs]
Malformed == [valid |-> FALSE, pairs |-> <<>>]
JSONDecodeError == [error |-> "JSONDecodeError"]
KeyOrder == <<"category", "name">>

\* json.loads: a dict (key order is not part of it), or the error it raises
json_loads(text) ==
    IF ~text.valid THEN JSONDecodeError
    ELSE LET p == text.pairs
         IN [k \in {p[i][1] : i \in 1..Len(p)} |->
                (CHOOSE v \in {p[i][2] : i \in 1..Len(p)} :
                    \E i \in 1..Len(p) : p[i] = <<k, v>>)]

RECURSIVE DumpKeys(_, _)
DumpKeys(d, i) ==
    IF i > Len(KeyOrder) THEN <<>>
    ELSE (IF KeyOrder[i] \in DOMAIN d THEN <<<<KeyOrder[i], d[KeyOrder[i]]>>>> ELSE <<>>)
         \o DumpKeys(d, i + 1)
\* json.dumps(arguments, sort_keys=True)
json_dumps(d) == DumpKeys(d, 1)

\* f"{tool_name}:{json.dumps(arguments, sort_keys=True)}"
call_signature(tool_name, arguments) == <<tool_name, json_dumps(arguments)>>

\* what the provider can ask for: four calls that differ in their signature,
\* one of them also with its keys in the other order, and one whose
\* arguments are not JSON
ToolCalls ==
    { [name |-> "search_products", arguments |-> Json(<<<<"name", "n">>>>)],
      [name |-> "get_product_variations", arguments |-> Json(<<<<"category", "c">>>>)],
      [name |-> "get_cheapest_product", arguments |-> Json(<<<<"category", "c">>, <<"name", "n">>>>)],
      [name |-> "get_cheapest_product", arguments |-> Json(<<<<"name", "n">>, <<"category", "c">>>>)],
      [name |-> "finalize_purchase", arguments |-> Json(<<<<"name", "n">>>>)],
      [name |-> "search_products", arguments |-> Malformed] }

\* response.choices[0].message: content (a text; "" stands for None and for
\* the empty text, which "content or ..." treats alike) and tool_calls
Responses ==
    {[content |-> c, tool_calls |-> <<>>] : c \in {"", "t"}}
    \cup {[content |-> "", tool_calls |-> tc] :
             tc \in UNION {[1..n -> ToolCalls] : n \in 1..MaxToolCalls}}

NotUnderstood == "Desculpe, nao entendi."
Rephrase == "Desculpe, encontrei um problema ao processar sua solicitacao. Pode reformular?"
GenericFailure == "Desculpe, ocorreu um erro ao processar sua solicitacao."

InitMcp ==
    /\ mcp_pc = "idle"
    /\ iteration = 0
    /\ tool_call_history = <<>>
    /\ messages = <<>>
    /\ tool_calls = <<>>
    /\ tool_index = 0
    /\ mcp_result = ""
    /\ provider_calls = 0
    /\ loop_signature = <<>>
    /\ raised = ""
    /\ store_notified = ""


\* tool_call_history[-3:]
LastThree_all(history) == history
LastThree(history) ==
    SubSeq(history, IF Len(history) > 3 THEN Len(history) - 2 ELSE 1, Len(history))

\* tc.id: the provider's id of the call, unique in the turn
tool_call_id(round, i) == <<round, i>>

\* while iteration < max_iterations
MoreRounds_inclusive == iteration <= max_iterations
MoreRounds == iteration < max_iterations

\* the head of the while loop: iteration += 1 and the await of
\* chat_with_tools, or, the rounds used up, the return after the loop
WhileHead(msgs) ==
    /\ messages' = msgs
    /\ loop_signature' = <<>>
    /\ IF MoreRounds
       THEN /\ iteration' = iteration + 1
            /\ provider_calls' = provider_calls + 1
            /\ mcp_pc' = "AWAITING_MODEL"
            /\ mcp_result' = ""
            /\ tool_calls' = <<>>
            /\ tool_index' = 0
       ELSE /\ mcp_pc' = "ABORTED"
            /\ mcp_result' = GenericFailure
            /\ UNCHANGED <<iteration, provider_calls, tool_calls, tool_index>>
    /\ UNCHANGED raised

\* the body of "for tool_call in assistant_message.tool_calls" for the
\* i-th call, up to the await of execute_tool
ForBody(calls, i, msgs) ==
    LET tool_call == calls[i]
        arguments == json_loads(tool_call.arguments)
        signature == call_signature(tool_call.name, arguments)
    IN /\ messages' = msgs
       /\ tool_calls' = calls
       /\ tool_index' = i
       /\ UNCHANGED <<iteration, provider_calls>>
       /\ IF arguments = JSONDecodeError
          THEN /\ mcp_pc' = "RAISED"
               /\ raised' = "json.loads"
               /\ mcp_result' = ""
               /\ loop_signature' = <<>>
               /\ UNCHANGED tool_call_history
          ELSE IF \E k \in DOMAIN LastThree(tool_call_history) :
                      LastThree(tool_call_history)[k] = signature
          THEN /\ mcp_pc' = "ABORTED"
               /\ mcp_result' = Rephrase
               /\ loop_signature' = signature
               /\ UNCHANGED <<tool_call_history, raised>>
          ELSE /\ tool_call_history' = Append(tool_call_history, signature)
               /\ mcp_pc' = "EXECUTING_TOOLS"
               /\ mcp_result' = ""
               /\ loop_signature' = <<>>
               /\ UNCHANGED raised

\* a turn that begins with the history the turn before it left
StartTurn_keeps_history ==
    /\ mcp_pc \in {"idle", "DONE", "ABORTED", "RAISED"}
    /\ UNCHANGED tool_call_history
    /\ iteration' = 1
    /\ provider_calls' = 1
    /\ mcp_pc' = "AWAITING_MODEL"
    /\ messages' = <<>>
    /\ tool_calls' = <<>>
    /\ tool_index' = 0
    /\ mcp_result' = ""
    /\ loop_signature' = <<>>
    /\ raised' = ""
    /\ store_notified' = ""

\* a turn begins: the caller passes the history and the consolidated message
StartTurn ==
    /\ mcp_pc \in {"idle", "DONE", "ABORTED", "RAISED"}
    /\ tool_call_history' = <<>>
    /\ iteration' = 1
    /\ provider_calls' = 1
    /\ mcp_pc' = "AWAITING_MODEL"
    /\ messages' = <<>>
    /\ tool_calls' = <<>>
    /\ tool_index' = 0
    /\ mcp_result' = ""
    /\ loop_signature' = <<>>
    /\ raised' = ""
    /\ store_notified' = ""

\* chat_with_tools returns
ProviderResponds(response) ==
    /\ mcp_pc = "AWAITING_MODEL"
    /\ UNCHANGED store_notified
    /\ IF response.tool_calls = <<>>
       THEN /\ mcp_pc' = "DONE"
            /\ mcp_result' = IF response.content # "" THEN response.content
                             ELSE NotUnderstood
            /\ UNCHANGED <<iteration, tool_call_history, messages, tool_calls, tool_index,
                           provider_calls, loop_signature, raised>>
       ELSE ForBody(response.tool_calls, 1,
                    Append(<<>>,
                           [role |-> "assistant",
                            tool_calls |-> [i \in 1..Len(response.tool_calls) |->
                                               tool_call_id(iteration, i)]]))

\* chat_with_tools raises: OpenAIService logs and re-raises
ProviderRaises ==
    /\ mcp_pc = "AWAITING_MODEL"
    /\ mcp_pc' = "RAISED"
    /\ raised' = "chat_with_tools"
    /\ UNCHANGED <<iteration, tool_call_history, messages, tool_calls, tool_index,
                   mcp_result, provider_calls, loop_signature, store_notified>>

\* results that all carry the id of the round's first call
AppendResult_first_id ==
    LET msgs == Append(messages, [role |-> "tool", tool_call_id |-> tool_call_id(iteration, 1)])
    IN IF tool_index < Len(tool_calls)
       THEN ForBody(tool_calls, tool_index + 1, msgs)
       ELSE WhileHead(msgs) /\ UNCHANGED tool_call_history

\* the tool result is appended and the for loop goes on, or the while loop
AppendResult ==
    LET msgs == Append(messages, [role |-> "tool",
                                  tool_call_id |-> tool_call_id(iteration, tool_index)])
    IN IF tool_index < Len(tool_calls)
       THEN ForBody(tool_calls, tool_index + 1, msgs)
       ELSE WhileHead(msgs) /\ UNCHANGED tool_call_history

\* execute_tool returns a result dict, or raises (arguments that do not fit
\* the tool's parameters: the call self.search_products(**arguments) fails)
ToolOutcomes == {"success", "success_no_phone", "failure", "raises"}
ToolReturns(outcome) ==
    /\ mcp_pc = "EXECUTING_TOOLS"
    /\ UNCHANGED store_notified
    /\ IF outcome = "raises"
       THEN /\ mcp_pc' = "RAISED"
            /\ raised' = "execute_tool"
            /\ UNCHANGED <<iteration, tool_call_history, messages, tool_calls, tool_index,
                           mcp_result, provider_calls, loop_signature>>
       ELSE IF tool_calls[tool_index].name = "finalize_purchase" /\ outcome = "success"
       THEN /\ mcp_pc' = "NOTIFYING_STORE"
            /\ UNCHANGED <<iteration, tool_call_history, messages, tool_calls, tool_index,
                           mcp_result, provider_calls, loop_signature, raised>>
       ELSE AppendResult

\* a notification whose failure leaves the tool loop
StoreNotified_raises(ok) ==
    /\ mcp_pc = "NOTIFYING_STORE"
    /\ store_notified' = IF ok THEN "sent" ELSE "failed"
    /\ IF ok THEN AppendResult
       ELSE /\ mcp_pc' = "RAISED"
            /\ raised' = "send_message"
            /\ UNCHANGED <<iteration, tool_call_history, messages, tool_calls, tool_index,
                           mcp_result, provider_calls, loop_signature>>

\* _send_whatsapp_message to the store returns or raises: the except logs
StoreNotified(ok) ==
    /\ mcp_pc = "NOTIFYING_STORE"
    /\ store_notified' = IF ok THEN "sent" ELSE "failed"
    /\ AppendResult

\* --------------------------------- ConversationManager and MessageHandler
\* products a budget is built from
MaxProducts == 3
\* clarification replies answered in a row
MaxReplies == 2

Product(name, category, store, price) ==
    [name |-> name, category |-> category, store |-> store, price |-> price]
\* three cements in three stores and a sand: with the sand store A totals
\* what store C does
AllProducts ==
    << Product("cimento CP-II", "cimento", "A", 100),
       Product("cimento CP-III", "cimento", "B", 90),
       Product("cimento CP-V", "cimento", "C", 120),
       Product("areia fina", "areia", "A", 20) >>
Catalogue == {AllProducts[i] : i \in 1..Len(AllProducts)}

\* lists of distinct catalogue products, up to n long
RECURSIVE ProductLists(_)
ProductLists(n) ==
    IF n = 0 THEN {<<>>}
    ELSE ProductLists(n - 1)
         \cup {Append(l, p) : l \in {x \in ProductLists(n - 1) : Len(x) = n - 1},
                              p \in Catalogue}

\* dict.get(key, default)
Get(d, key, default) == IF key \in DOMAIN d THEN d[key] ELSE default

\* dict.update(updates)
Update(d, updates) ==
    [k \in DOMAIN d \cup DOMAIN updates |-> IF k \in DOMAIN updates THEN updates[k] ELSE d[k]]

\* the state dict get_user_state creates for a user that has none
NewState ==
    [store_totals |-> <<>>, awaiting_store_selection |-> FALSE,
     awaiting_purchase_confirmation |-> "", selected_store_data |-> NoneValue]

has_active_state(u) == conversation_state[u] # NoneValue
get_user_state(cs, u) == IF cs[u] = NoneValue THEN NewState ELSE cs[u]
update_user_state(cs, u, updates) == [cs EXCEPT ![u] = Update(get_user_state(cs, u), updates)]
clear_user_state(cs, u) == [cs EXCEPT ![u] = NoneValue]

\* store_totals is a dict: its items, in insertion order, as
\* [name, total, products] records (products: the names priced)
RECURSIVE AddProduct(_, _)
AddProduct(totals, product) ==
    IF totals = <<>>
    THEN <<[name |-> product.store, total |-> product.price, products |-> {product.name}]>>
    ELSE IF Head(totals).name = product.store
    THEN (IF product.name \in Head(totals).products
          THEN totals
          ELSE <<[Head(totals) EXCEPT !.total = @ + product.price,
                                      !.products = @ \cup {product.name}]>> \o Tail(totals))
    ELSE <<Head(totals)>> \o AddProduct(Tail(totals), product)

RECURSIVE store_totals_of(_)
\* the store_totals _save_conversation_state_for_products builds: the
\* products grouped by store, a product name once per store, each store
\* with the sum of its prices
store_totals_of(products) ==
    IF products = <<>> THEN <<>>
    ELSE AddProduct(store_totals_of(SubSeq(products, 1, Len(products) - 1)),
                    products[Len(products)])

RECURSIVE InsertByTotal(_, _)
InsertByTotal(s, item) ==
    IF s = <<>> THEN <<item>>
    ELSE IF item.total < Head(s).total THEN <<item>> \o s
    ELSE <<Head(s)>> \o InsertByTotal(Tail(s), item)

sorted_stores_unsorted(store_totals) == store_totals
RECURSIVE sorted_stores(_)
\* sorted(store_totals.items(), key=lambda x: x[1]["total"]): stable
sorted_stores(store_totals) ==
    IF store_totals = <<>> THEN <<>>
    ELSE InsertByTotal(sorted_stores(SubSeq(store_totals, 1, Len(store_totals) - 1)),
                       store_totals[Len(store_totals)])

\* format_all_stores_details: the store names in the order they are numbered
format_all_stores_details(store_totals) ==
    [i \in 1..Len(sorted_stores(store_totals)) |-> sorted_stores(store_totals)[i].name]

\* what handling a text did: the new conversation_state, the reply (""
\* stands for None), the handlers that ran, the branch of
\* handle_interactive_option taken, and what was shown, finalized or marked
Outcome(cs, reply, handlers) ==
    [cs |-> cs, reply |-> reply, handlers |-> handlers, listed |-> <<>>,
     finalized |-> "", pre_totals |-> <<>>, marked |-> "", branch |-> "",
     notified |-> "", analysis |-> ""]

\* where sending the message to the store can raise
NotifyPoints == {"", "_send_whatsapp_message"}

\* a finalization that always takes the cheapest store
_handle_finalize_purchase_cheapest(cs, u, raises) ==
    LET state == get_user_state(cs, u)
        sorted_list == sorted_stores(state.store_totals)
    IN IF sorted_list = <<>>
       THEN Outcome(cs, "Erro: Nenhuma loja disponivel.", <<"_handle_finalize_purchase">>)
       ELSE [Outcome(clear_user_state(cs, u), "purchase_summary",
                     <<"_handle_finalize_purchase">>)
                EXCEPT !.finalized = sorted_list[1].name, !.pre_totals = state.store_totals,
                       !.notified = IF raises = "_send_whatsapp_message"
                                    THEN "failed" ELSE "sent"]

\* _handle_finalize_purchase; the message to the store is sent in a try
\* whose except only logs
_handle_finalize_purchase(cs, u, raises) ==
    LET state == get_user_state(cs, u)
        sorted_list == sorted_stores(state.store_totals)
    IN IF state.selected_store_data = NoneValue /\ sorted_list = <<>>
       THEN Outcome(cs, "Erro: Nenhuma loja disponivel.", <<"_handle_finalize_purchase">>)
       ELSE LET store_name == IF state.selected_store_data # NoneValue
                              THEN state.awaiting_purchase_confirmation
                              ELSE sorted_list[1].name
            IN [Outcome(clear_user_state(cs, u), "purchase_summary",
                        <<"_handle_finalize_purchase">>)
                   EXCEPT !.finalized = store_name, !.pre_totals = state.store_totals,
                          !.notified = IF raises = "_send_whatsapp_message"
                                       THEN "failed" ELSE "sent"]

\* _handle_best_price_details
_handle_best_price_details(cs, u) ==
    LET state == get_user_state(cs, u)
        sorted_list == sorted_stores(state.store_totals)
    IN IF sorted_list = <<>>
       THEN Outcome(cs, "Erro: Nenhuma loja disponivel.", <<"_handle_best_price_details">>)
       ELSE [Outcome(update_user_state(cs, u,
                         [awaiting_purchase_confirmation |-> sorted_list[1].name,
                          selected_store_data |-> sorted_list[1]]),
                     "best_price_details", <<"_handle_best_price_details">>)
                EXCEPT !.listed = <<sorted_list[1].name>>]

\* _handle_all_stores_details
_handle_all_stores_details(cs, u) ==
    LET state == get_user_state(cs, u)
    IN [Outcome(update_user_state(cs, u, [awaiting_store_selection |-> TRUE]),
                "all_stores_details", <<"_handle_all_stores_details">>)
           EXCEPT !.listed = format_all_stores_details(state.store_totals)]

\* int(selection): the number a text denotes, which is a digit, bare or
\* after a sign or a zero; any other text raises ValueError
Digits == <<"0", "1", "2", "3", "4", "5", "6", "7", "8", "9">>
Literals(i) == {Digits[i], "+" \o Digits[i], "-" \o Digits[i], "0" \o Digits[i]}
IsInt(text) == \E i \in 1..Len(Digits) : text \in Literals(i)
int(text) ==
    LET i == CHOOSE i \in 1..Len(Digits) : text \in Literals(i)
    IN IF text = "-" \o Digits[i] THEN 0 - (i - 1) ELSE i - 1

\* _handle_store_selection
_handle_store_selection(cs, u, selection) ==
    LET state == get_user_state(cs, u)
        sorted_list == sorted_stores(state.store_totals)
    IN IF selection = "0"
       THEN [Outcome(update_user_state(cs, u, [awaiting_store_selection |-> FALSE]),
                     "Voltando ao menu principal. all_stores_details",
                     <<"_handle_store_selection">>)
                EXCEPT !.listed = format_all_stores_details(state.store_totals)]
       ELSE IF ~IsInt(selection)
       THEN Outcome(cs, "Por favor, digite apenas o numero da opcao desejada.",
                    <<"_handle_store_selection">>)
       ELSE IF 0 <= int(selection) - 1 /\ int(selection) - 1 < Len(sorted_list)
       THEN [Outcome(update_user_state(cs, u,
                         [awaiting_store_selection |-> FALSE,
                          awaiting_purchase_confirmation |-> sorted_list[int(selection)].name,
                          selected_store_data |-> sorted_list[int(selection)]]),
                     "best_price_details", <<"_handle_store_selection">>)
                EXCEPT !.listed = <<sorted_list[int(selection)].name>>]
       ELSE Outcome(cs, "Opcao invalida.", <<"_handle_store_selection">>)

\* how the analysis prompt is answered: the call of the AI raises, or it
\* returns a text that is not JSON, or the JSON object with
\* needs_clarification and category_to_clarify
AiAnswers ==
    { [raised |-> TRUE, json |-> FALSE, needs_clarification |-> FALSE,
       category_to_clarify |-> ""],
      [raised |-> FALSE, json |-> FALSE, needs_clarification |-> FALSE,
       category_to_clarify |-> ""],
      [raised |-> FALSE, json |-> TRUE, needs_clarification |-> FALSE,
       category_to_clarify |-> ""],
      [raised |-> FALSE, json |-> TRUE, needs_clarification |-> TRUE,
       category_to_clarify |-> "areia"] }

\* an analysis that lets the failure of the call or of the parse through
analyze_product_variations_raises(products, answer) ==
    IF Len(products) <= 1 THEN [needs_clarification |-> FALSE, message |-> ""]
    ELSE IF answer.raised \/ ~answer.json THEN [raises |-> TRUE]
    ELSE IF ~answer.needs_clarification THEN [needs_clarification |-> FALSE, message |-> ""]
    ELSE [needs_clarification |-> TRUE, message |-> "clarification_message",
          current_category |-> answer.category_to_clarify]

\* analyze_product_variations
analyze_product_variations(products, answer) ==
    IF Len(products) <= 1 \/ answer.raised \/ ~answer.json \/ ~answer.needs_clarification
    THEN [needs_clarification |-> FALSE, message |-> ""]
    ELSE [needs_clarification |-> TRUE, message |-> "clarification_message",
          current_category |-> answer.category_to_clarify]

RECURSIVE min_price(_)
\* min(found_products, key=price): the first of the cheapest
min_price(products) ==
    IF Len(products) = 1 THEN products[1]
    ELSE LET rest == min_price(Tail(products))
         IN IF rest.price < Head(products).price THEN rest ELSE Head(products)

\* what get_products returns for one search: products of one category
FoundLists ==
    { <<>>, <<AllProducts[1]>>, <<AllProducts[1], AllProducts[2]>>, <<AllProducts[4]>> }

\* where a clarification can raise: the catalogue search, or the saving and
\* formatting that follow the update of the state
RaisePoints == {"", "get_products", "after_update"}
Apology == "Desculpe, houve um erro. Vamos tentar novamente."

\* how the analysis a handler awaited was answered, "" when the AI was not
\* asked
AnalysisOf(products, answer) ==
    IF Len(products) <= 1 THEN ""
    ELSE IF answer.raised THEN "failed"
    ELSE IF ~answer.json THEN "unparsable"
    ELSE "parsed"

\* _handle_product_clarification.  selected_products is the list held by
\* the state: the append changes the state at once.  The except of the
\* handler takes whatever the search, the analysis or the formatting raise.
_handle_product_clarification(cs, u, text, found, answer, raises) ==
    LET state == get_user_state(cs, u)
        pending_products == Get(state, "pending_products", <<>>)
        current_category == Get(state, "current_category", "")
        clarified_categories == Get(state, "clarified_categories", <<>>)
        selected_products ==
            IF found # <<>>
            THEN Append(Get(state, "selected_products", <<>>), min_price(found))
            ELSE Get(state, "selected_products", <<>>)
        updated_clarified_categories == Append(clarified_categories, current_category)
        variation_analysis == analyze_product_variations(pending_products, answer)
        h == <<"_handle_product_clarification">>
    IN IF pending_products = <<>>
       THEN Outcome(cs, "Estado da conversa expirou.", h)
       ELSE IF raises = "get_products"
       THEN Outcome(cs, Apology, h)
       ELSE IF Get(variation_analysis, "raises", FALSE)
       THEN [Outcome(cs, Apology, h)
                EXCEPT !.analysis = AnalysisOf(pending_products, answer)]
       ELSE IF variation_analysis.needs_clarification
       THEN LET cs1 == update_user_state(cs, u,
                           [selected_products |-> selected_products,
                            awaiting_clarification |-> TRUE,
                            current_category |->
                                Get(variation_analysis, "category_to_clarify", "produto"),
                            clarified_categories |-> updated_clarified_categories])
            IN [Outcome(cs1, IF raises = "after_update" THEN Apology ELSE "Produto adicionado!", h)
                   EXCEPT !.marked = current_category,
                          !.analysis = AnalysisOf(pending_products, answer)]
       ELSE LET cs1 == update_user_state(cs, u,
                           [awaiting_clarification |-> FALSE,
                            selected_products |-> selected_products,
                            clarified_categories |-> updated_clarified_categories])
            IN IF raises = "after_update"
               THEN [Outcome(cs1, Apology, h)
                        EXCEPT !.marked = current_category,
                               !.analysis = AnalysisOf(pending_products, answer)]
               ELSE [Outcome(update_user_state(cs1, u,
                                 [store_totals |-> store_totals_of(selected_products)]),
                             "Todos os produtos selecionados! ORCAMENTO FINAL", h)
                        EXCEPT !.marked = current_category,
                               !.analysis = AnalysisOf(pending_products, answer)]

Branch(name, outcome) == [outcome EXCEPT !.branch = name]

\* a dispatcher that looks at the shape of the text before the flags
handle_interactive_option_by_text(cs, u, text, found, answer, raises) ==
    IF cs[u] = NoneValue
    THEN Outcome(cs, "", <<>>)
    ELSE IF text = "1" THEN Branch("menu", _handle_finalize_purchase(cs, u, raises))
    ELSE IF text = "0"
    THEN Branch("menu", Outcome(clear_user_state(cs, u), "Voltando ao menu principal.", <<>>))
    ELSE IF Get(get_user_state(cs, u), "awaiting_clarification", FALSE)
    THEN Branch("clarification",
                _handle_product_clarification(cs, u, text, found, answer, raises))
    ELSE Branch("menu", Outcome(cs, "", <<>>))

\* handle_interactive_option
handle_interactive_option(cs, u, text, found, answer, raises) ==
    LET state == get_user_state(cs, u)
    IN IF cs[u] = NoneValue
       THEN Outcome(cs, "", <<>>)
       ELSE IF Get(state, "awaiting_clarification", FALSE)
       THEN Branch("clarification",
                   _handle_product_clarification(cs, u, text, found, answer, raises))
       ELSE IF state.awaiting_store_selection
       THEN Branch("store_selection", _handle_store_selection(cs, u, text))
       ELSE IF state.awaiting_purchase_confirmation # ""
       THEN Branch("purchase_confirmation",
                   IF text = "1" THEN _handle_finalize_purchase(cs, u, raises)
                   ELSE IF text = "0"
                   THEN Outcome(clear_user_state(cs, u), "Voltando ao menu principal.", <<>>)
                   ELSE Outcome(cs, "Por favor, digite 1 para finalizar a compra ou 0 para voltar ao menu.",
                                <<>>))
       ELSE Branch("menu",
                   IF text = "1" THEN _handle_finalize_purchase(cs, u, raises)
                   ELSE IF text = "2" THEN _handle_best_price_details(cs, u)
                   ELSE IF text = "3" THEN _handle_all_stores_details(cs, u)
                   ELSE IF text = "0"
                   THEN Outcome(clear_user_state(cs, u), "Voltando ao menu principal.", <<>>)
                   ELSE Outcome(cs, "", <<>>))

\* the clarification state build_product_context leaves: with nothing
\* specified yet, or with the cement already specified and selected
ClarificationStarts ==
    { [unique_products |-> AllProducts, clarified_categories |-> <<>>,
       selected_products |-> <<>>],
      [unique_products |-> AllProducts, clarified_categories |-> <<"cimento">>,
       selected_products |-> <<Product("cimento CP-III", "cimento", "B", 90)>>] }

\* the texts a user sends (process_message strips them)
Texts == {"0", "1", "2", "3", "+2", "CP-II"}

NoLast == [text |-> "", active |-> FALSE]

\* ChatbotService.process_debounced_messages reads the user's state, which
\* creates it
DebouncedGetsUserState(u) ==
    /\ last = NoLast
    /\ conversation_state[u] = NoneValue
    /\ conversation_state' = [conversation_state EXCEPT ![u] = get_user_state(conversation_state, u)]
    /\ last' = NoLast

\* the budgets build_product_context can save: those of the lists of up to
\* MaxProducts products
BudgetLists == ProductLists(MaxProducts) \ {<<>>}
Budgets == {store_totals_of(products) : products \in BudgetLists}

\* build_product_context saves the budget of the products it found
SaveBudget(u, store_totals) ==
    /\ last = NoLast
    /\ conversation_state' = update_user_state(conversation_state, u,
                                 [store_totals |-> store_totals])
    /\ last' = NoLast

\* build_product_context asks the user to clarify
StartClarification(u, start, answer) ==
    /\ last = NoLast
    /\ answer.json /\ answer.needs_clarification
    /\ conversation_state' =
           update_user_state(conversation_state, u,
               [pending_products |-> start.unique_products,
                awaiting_clarification |-> TRUE,
                current_category |->
                    Get(analyze_product_variations(start.unique_products, answer),
                        "category_to_clarify", "produto"),
                clarified_categories |-> start.clarified_categories,
                selected_products |-> start.selected_products])
    /\ last' = NoLast

Categories(products) == {products[i].category : i \in 1..Len(products)}
Unresolved(state) ==
    Categories(Get(state, "pending_products", <<>>))
        \ Range(Get(state, "clarified_categories", <<>>))

\* ChatbotService.process_message passes the text to
\* handle_interactive_option; the user sends a text once the one before
\* has been dealt with
Handle(u, text, found, answer, raises) ==
    last = NoLast /\
    \E outcome \in {handle_interactive_option(conversation_state, u, text, found, answer, raises)} :
    LET state == get_user_state(conversation_state, u)
    IN /\ conversation_state' = outcome.cs
       /\ last' = [text |-> text,
                   user |-> u,
                   active |-> has_active_state(u),
                   pre_clarification |-> Get(state, "awaiting_clarification", FALSE),
                   pre_store_selection |-> state.awaiting_store_selection,
                   pre_confirmation |-> state.awaiting_purchase_confirmation,
                   pre_unresolved |-> Unresolved(state),
                   pre_totals |-> outcome.pre_totals,
                   branch |-> outcome.branch,
                   handlers |-> outcome.handlers,
                   reply |-> outcome.reply,
                   listed |-> outcome.listed,
                   finalized |-> outcome.finalized,
                   notified |-> outcome.notified,
                   analysis |-> outcome.analysis,
                   marked |-> outcome.marked]

\* a reply while clarification is awaited
HandleClarificationReply(u, text, found, answer, raises) ==
    /\ has_active_state(u)
    /\ Get(conversation_state[u], "awaiting_clarification", FALSE)
    /\ Len(Get(conversation_state[u], "clarified_categories", <<>>)) < MaxReplies
    /\ Handle(u, text, found, answer, raises)

\* any other text
HandleMenuText(u, text, raises) ==
    /\ has_active_state(u) => ~Get(conversation_state[u], "awaiting_clarification", FALSE)
    /\ Handle(u, text, <<>>, CHOOSE a \in AiAnswers : ~a.json, raises)

\* ------------- ChatbotService / BaseChatbotService: debounce by a sleep
\* Every inbound message is one call of process_message, which records the
\* message, sleeps and then runs process_debounced_messages itself; nothing
\* cancels a call.  A call is suspended at one awaited call at a time: pc is
\* the position of that call in Stages, 0 once process_message has returned
\* or raised.  The outcome of an awaited call is taken when it completes.
Services == {"ChatbotService", "BaseChatbotService"}
Greeting == <<"g">>

\* the awaited calls of process_message after the daily greeting, in order
Stages ==
    IF service = "BaseChatbotService"
    THEN <<"save_temp_message", "sleep", "get_temp_messages", "get_recent_messages",
           "chat_with_tools", "delete_temp_messages", "save_user", "save_reply",
           "send_message", "update_presence">>
    ELSE <<"save_temp_message", "send_presence", "sleep", "send_presence",
           "get_temp_messages", "get_recent_messages", "generate_response",
           "save_user", "save_reply", "delete_temp_messages", "send_message",
           "send_presence">>

\* _log_message, _send_whatsapp_message and _update_presence of
\* ChatbotService catch every exception; those of BaseChatbotService have
\* no try
Swallows(stage) ==
    /\ service = "ChatbotService"
    /\ stage \in {"save_user", "save_reply", "send_message", "send_presence"}

NewCall(u) ==
    [user |-> u, pc |-> 1, msg |-> 0, fetched |-> <<>>, consolidated |-> NoneValue,
     replied |-> FALSE, logged_user |-> FALSE, logged_reply |-> FALSE,
     deleted |-> FALSE, sent |-> FALSE, raised |-> "", result |-> ""]

\* no turn list is being built
NoTurn == [pc |-> "idle", input |-> <<>>, history |-> <<>>, consolidated |-> NoneValue,
           provider_input |-> <<>>, asked |-> 0]

\* the users whose turns follow one another
TurnUsers == {"u1", "u2"}

\* ConversationManager.__init__: no conversation is active.  timers are the
\* debounce_callback tasks created, now is the clock, result is what the
\* latest process_message_async did (ghost)
NoManager ==
    [active_conversations |-> [u \in Users |-> [present |-> FALSE, debounce_task |-> 0]],
     timers |-> <<>>, now |-> 0, result |-> NoneValue]
NoEarlier == [user |-> "u1", ended |-> "idle", executed |-> [u \in TurnUsers |-> <<>>]]

InitService ==
    /\ requests = <<>>
    /\ outbox = {}
    /\ turn = NoTurn
    /\ earlier = NoEarlier
    /\ conversation_manager = NoManager

Stage(i) == Stages[requests[i].pc]
At(i, stage) == i \in 1..Len(requests) /\ requests[i].pc # 0 /\ Stage(i) = stage

\* the awaited call returned: on to the next one, or process_message returns
Advance(c) ==
    IF c.pc = Len(Stages) THEN [c EXCEPT !.pc = 0, !.result = "queued"]
    ELSE [c EXCEPT !.pc = @ + 1]

\* the awaited call raised: the exception leaves process_message (the
\* webhook handler logs it and answers with status error)
Raise(c, stage) == [c EXCEPT !.pc = 0, !.raised = stage, !.result = "error"]

\* the awaited call failed
Fail(c, stage) ==
    IF Swallows(stage) THEN Advance(c)
    ELSE Raise(c, stage)

Return(c) == [c EXCEPT !.pc = 0, !.result = "queued"]

HasTurns(u) == \E k \in 1..Len(conversation_context) : conversation_context[k].user = u

GreetingFails == {"", "get_latest_message", "save_message", "send_message"}

\* process_message up to _record_temp_message: _maybe_send_daily_greeting
\* (the text is no interactive option).  fail is the call of the greeting
\* that fails, "" when none does.
process_message(u, fail) ==
    LET first == fail # "get_latest_message" /\ ~HasTurns(u)
        logged == first /\ fail # "save_message"
        raises == first /\ service = "BaseChatbotService" /\ fail \in {"save_message", "send_message"}
        delivered == first /\ fail # "send_message"
                        /\ ~(service = "BaseChatbotService" /\ fail = "save_message")
    IN /\ Len(requests) < MaxMsgs
       /\ first \/ fail \in {"", "get_latest_message"}
       /\ conversation_context' =
              IF logged THEN Append(conversation_context,
                                    [user |-> u, role |-> "assistant", content |-> Greeting])
              ELSE conversation_context
       /\ outbox' = IF delivered THEN outbox \cup {[user |-> u, text |-> Greeting]} ELSE outbox
       /\ requests' = Append(requests, IF raises THEN Raise(NewCall(u), fail) ELSE NewCall(u))
       /\ UNCHANGED <<inbound, temp_messages>>

\* _record_temp_message: save_temp_message stores the row or raises
RecordTempMessage(i, created_at, ok) ==
    /\ At(i, "save_temp_message")
    /\ IF ok
       THEN /\ inbound' = Append(inbound, [user |-> requests[i].user, role |-> "user",
                                           content |-> TextOf(Len(inbound) + 1),
                                           created_at |-> created_at])
            /\ temp_messages' = Append(temp_messages, Len(inbound) + 1)
            /\ requests' = [requests EXCEPT ![i] = Advance([@ EXCEPT !.msg = Len(inbound) + 1])]
       ELSE /\ requests' = [requests EXCEPT ![i] = Raise(@, "save_temp_message")]
            /\ UNCHANGED <<inbound, temp_messages>>
    /\ UNCHANGED <<conversation_context, outbox>>

\* _update_presence.  EvolutionService has send_presence only: the
\* update_presence that BaseChatbotService calls raises AttributeError.
UpdatePresence(i, ok) ==
    /\ At(i, "send_presence") \/ At(i, "update_presence")
    /\ At(i, "update_presence") => ~ok
    /\ requests' = [requests EXCEPT ![i] = IF ok THEN Advance(@) ELSE Fail(@, Stage(i))]
    /\ UNCHANGED <<inbound, temp_messages, conversation_context, outbox>>

\* asyncio.sleep of _schedule_user_processing returns
DebounceSleepEnds(i) ==
    /\ At(i, "sleep")
    /\ requests' = [requests EXCEPT ![i] = Advance(@)]
    /\ UNCHANGED <<inbound, temp_messages, conversation_context, outbox>>

\* process_debounced_messages: get_temp_messages returns the user's pending
\* rows (none: return None) or raises
GetTempMessages(i, ok) ==
    /\ At(i, "get_temp_messages")
    /\ LET fetched == get_temp_messages(requests[i].user)
       IN requests' = [requests EXCEPT ![i] =
              IF ~ok THEN Raise(@, "get_temp_messages")
              ELSE IF fetched = <<>> THEN Return(@)
              ELSE Advance([@ EXCEPT !.fetched = fetched])]
    /\ UNCHANGED <<inbound, temp_messages, conversation_context, outbox>>

\* _build_message_history returns or raises; the pending rows are consolidated
BuildMessageHistory(i, ok) ==
    /\ At(i, "get_recent_messages")
    /\ requests' = [requests EXCEPT ![i] =
          IF ok THEN Advance([@ EXCEPT !.consolidated = _consolidate_temp_messages(requests[i].fetched)])
          ELSE Raise(@, "get_recent_messages")]
    /\ UNCHANGED <<inbound, temp_messages, conversation_context, outbox>>

\* the reply is produced (_process_with_mcp of BaseChatbotService,
\* build_product_context and _prepare_response of ChatbotService), or the
\* provider call raises
ResponseGenerated(i, ok) ==
    /\ At(i, "chat_with_tools") \/ At(i, "generate_response")
    /\ requests' = [requests EXCEPT ![i] =
          IF ok THEN Advance([@ EXCEPT !.replied = TRUE]) ELSE Raise(@, Stage(i))]
    /\ UNCHANGED <<inbound, temp_messages, conversation_context, outbox>>

Logged(u, role, content) ==
    conversation_context' =
        Append(conversation_context, [user |-> u, role |-> role, content |-> content])

\* _cleanup_and_save: the consolidated user turn is logged
LogUserTurn(i, ok) ==
    /\ At(i, "save_user")
    /\ LET c == requests[i]
       IN IF c.consolidated = NoneValue
          THEN /\ requests' = [requests EXCEPT ![i] = Advance(@)]
               /\ UNCHANGED conversation_context
          ELSE IF ok
          THEN /\ Logged(c.user, "user", c.consolidated.content)
               /\ requests' = [requests EXCEPT ![i] = Advance([@ EXCEPT !.logged_user = TRUE])]
          ELSE /\ requests' = [requests EXCEPT ![i] = Fail(@, "save_user")]
               /\ UNCHANGED conversation_context
    /\ UNCHANGED <<inbound, temp_messages, outbox>>

\* _cleanup_and_save: the assistant reply is logged
LogReply(i, ok) ==
    /\ At(i, "save_reply")
    /\ IF ok
       THEN /\ Logged(requests[i].user, "assistant", ReplyText)
            /\ requests' = [requests EXCEPT ![i] = Advance([@ EXCEPT !.logged_reply = TRUE])]
       ELSE /\ requests' = [requests EXCEPT ![i] = Fail(@, "save_reply")]
            /\ UNCHANGED conversation_context
    /\ UNCHANGED <<inbound, temp_messages, outbox>>

\* temp_ids of _cleanup_and_save: ChatbotService collects them only when
\* there is a consolidated message
cleanup_ids(c) ==
    IF service = "ChatbotService" /\ c.consolidated = NoneValue THEN <<>> ELSE c.fetched

\* _cleanup_and_save: delete_temp_messages removes the rows or raises
DeleteTempMessages(i, ok) ==
    /\ At(i, "delete_temp_messages")
    /\ cleanup_ids(requests[i]) = <<>> => ok
    /\ IF ok
       THEN /\ temp_messages' = Remove(temp_messages, Range(cleanup_ids(requests[i])))
            /\ requests' = [requests EXCEPT ![i] = Advance([@ EXCEPT !.deleted = TRUE])]
       ELSE /\ requests' = [requests EXCEPT ![i] = Raise(@, "delete_temp_messages")]
            /\ UNCHANGED temp_messages
    /\ UNCHANGED <<inbound, conversation_context, outbox>>

\* _send_whatsapp_message: the reply is delivered, or send_message raises
SendWhatsappMessage(i, ok) ==
    /\ At(i, "send_message")
    /\ IF ok
       THEN /\ outbox' = outbox \cup {[user |-> requests[i].user, text |-> ReplyText]}
            /\ requests' = [requests EXCEPT ![i] = Advance([@ EXCEPT !.sent = TRUE])]
       ELSE /\ requests' = [requests EXCEPT ![i] = Fail(@, "send_message")]
            /\ UNCHANGED outbox
    /\ UNCHANGED <<inbound, temp_messages, conversation_context>>

\* --------------------------------- the turn list of a debounced turn
\* persisted turns get_recent_messages may return (40 in app/main.py and
\* ChatbotService, 10 in BaseChatbotService)
HISTORY_LIMIT == 2

RECURSIVE InsertRow(_, _)
InsertRow(s, row) ==
    IF s = <<>> THEN <<row>>
    ELSE IF row.created_at < Head(s).created_at THEN <<row>> \o s
    ELSE <<Head(s)>> \o InsertRow(Tail(s), row)

\* a history left in the order the store returned it
sorted_rows_not(s) == s

RECURSIVE sorted_rows(_)
\* sorted(recent_messages, key=_sort_key)
sorted_rows(s) ==
    IF s = <<>> THEN <<>>
    ELSE InsertRow(sorted_rows(SubSeq(s, 1, Len(s) - 1)), s[Len(s)])

UserRows(u) == {k \in 1..Len(conversation_context) : conversation_context[k].user = u}

Min(a, b) == IF a < b THEN a ELSE b

\* SupabaseService.get_recent_messages: the limit most recent rows of the
\* user, created_at descending; the store fixes no order among equal stamps
get_recent_messages(u, limit) ==
    LET n == Min(limit, Cardinality(UserRows(u)))
        stamp(k) == conversation_context[k].created_at
    IN {[i \in 1..n |-> conversation_context[ks[i]]] :
           ks \in {f \in [1..n -> UserRows(u)] :
                     /\ \A i, j \in 1..n : i < j => f[i] # f[j] /\ stamp(f[i]) >= stamp(f[j])
                     /\ \A k \in UserRows(u) :
                           (\A i \in 1..n : f[i] # k) => \A i \in 1..n : stamp(k) <= stamp(f[i])}}

RECURSIVE WithContent(_)
\* the role and content of the rows that have content
WithContent(rows) ==
    IF rows = <<>> THEN <<>>
    ELSE IF Head(rows).content # <<>>
         THEN <<[role |-> Head(rows).role, content |-> Head(rows).content]>>
                  \o WithContent(Tail(rows))
         ELSE WithContent(Tail(rows))

\* _build_message_history
_build_message_history(recent_messages) == WithContent(sorted_rows(recent_messages))

SystemPrompt == [role |-> "system", content |-> <<"s">>]
ModelContext == [role |-> "system", content |-> <<"m">>]

\* what _build_product_context returns: None, model and user texts, or the
\* model text alone (no product with a price above zero); asked counts the
\* provider calls it makes.  BaseChatbotService has no catalog step.
CatalogContexts ==
    IF service = "BaseChatbotService" THEN {[model |-> FALSE, user |-> FALSE, asked |-> 0]}
    ELSE {[model |-> FALSE, user |-> FALSE, asked |-> 1],
          [model |-> FALSE, user |-> FALSE, asked |-> 2],
          [model |-> TRUE, user |-> TRUE, asked |-> 2],
          [model |-> TRUE, user |-> FALSE, asked |-> 2]}

\* process_debounced_messages: the pending rows are there; the history is built
BuildHistory(u, recent_messages) ==
    /\ turn.pc = "idle"
    /\ get_temp_messages(u) # <<>>
    /\ turn' = [turn EXCEPT !.pc = "history",
                            !.history = _build_message_history(recent_messages)]

\* what get_temp_messages can return: the user's pending rows, created_at
\* ascending; the store fixes no order among equal stamps
TempResults(u) ==
    LET ids == Range(SelectIds(temp_messages, u))
        n == Cardinality(ids)
    IN {f \in [1..n -> ids] :
           \A i, j \in 1..n : i < j => f[i] # f[j] /\ _sort_key(f[i]) <= _sort_key(f[j])}

\* the pending rows fetched are consolidated and the result, if any, appended
AppendConsolidated(temp_rows) ==
    /\ turn.pc = "history"
    /\ LET consolidated == _consolidate_temp_messages(temp_rows)
       IN turn' = [turn EXCEPT
              !.pc = "consolidated",
              !.input = temp_rows,
              !.consolidated = consolidated,
              !.history = IF consolidated # NoneValue THEN Append(@, consolidated) ELSE @]

\* the catalog step, then the reply: the catalog's user text, or the
\* provider's answer to the list (BaseChatbotService: the system prompt and
\* the list go to _process_with_mcp)
PrepareResponse(catalog_context) ==
    /\ turn.pc = "consolidated"
    /\ LET history == IF catalog_context.model THEN Append(turn.history, ModelContext)
                      ELSE turn.history
       IN turn' = [turn EXCEPT
              !.pc = IF catalog_context.user THEN "catalog_reply" ELSE "provider_called",
              !.history = history,
              !.asked = catalog_context.asked,
              !.provider_input =
                  IF catalog_context.user THEN <<>>
                  ELSE IF service = "BaseChatbotService" THEN <<SystemPrompt>> \o history
                  ELSE history]

InitMenu ==
    /\ conversation_state = [u \in Users |-> NoneValue]
    /\ last = NoLast

Init == InitDebounce /\ InitMcp /\ InitMenu /\ InitService /\ service = "app.main"

\* the handler is built with either service
InitServices == InitDebounce /\ InitMcp /\ InitMenu /\ InitService /\ service \in Services

MaxGen == MaxMsgs

Next ==
    \/ \E u \in Users, created_at \in Stamps : Webhook(u, TextOf(Len(inbound) + 1), created_at) /\ UNCHANGED <<mcp_vars, menu_vars, service_vars>>
    \/ \E id \in webhooks : schedule_user_processing(id) /\ UNCHANGED <<mcp_vars, menu_vars, service_vars>>
    \/ \E u \in Users, g \in 1..MaxGen : SleepElapses(u, g) /\ UNCHANGED <<mcp_vars, menu_vars, service_vars>>
    \/ \E u \in Users, g \in 1..MaxGen : Cancelled(u, g) /\ UNCHANGED <<mcp_vars, menu_vars, service_vars>>
    \/ \E u \in Users, g \in 1..MaxGen : Fire(u, g) /\ UNCHANGED <<mcp_vars, menu_vars, service_vars>>
    \/ \E u \in Users, g \in 1..MaxGen : AfterGetTemp(u, g) /\ UNCHANGED <<mcp_vars, menu_vars, service_vars>>
    \/ \E u \in Users, g \in 1..MaxGen : AfterGenerate(u, g) /\ UNCHANGED <<mcp_vars, menu_vars, service_vars>>
    \/ \E u \in Users, g \in 1..MaxGen : AfterLogUser(u, g) /\ UNCHANGED <<mcp_vars, menu_vars, service_vars>>
    \/ \E u \in Users, g \in 1..MaxGen : AfterLogReply(u, g) /\ UNCHANGED <<mcp_vars, menu_vars, service_vars>>
    \/ \E u \in Users, g \in 1..MaxGen : AfterDelete(u, g) /\ UNCHANGED <<mcp_vars, menu_vars, service_vars>>
    \/ \E u \in Users, g \in 1..MaxGen : AfterSend(u, g) /\ UNCHANGED <<mcp_vars, menu_vars, service_vars>>
    \/ \E u \in Users, g \in 1..MaxGen : Raised(u, g) /\ UNCHANGED <<mcp_vars, menu_vars, service_vars>>

Spec == Init /\ [][Next]_vars

NextMcp ==
    \/ StartTurn /\ UNCHANGED <<debounce_vars, menu_vars, service_vars>>
    \/ \E response \in Responses : ProviderResponds(response) /\ UNCHANGED <<debounce_vars, menu_vars, service_vars>>
    \/ ProviderRaises /\ UNCHANGED <<debounce_vars, menu_vars, service_vars>>
    \/ \E outcome \in ToolOutcomes : ToolReturns(outcome) /\ UNCHANGED <<debounce_vars, menu_vars, service_vars>>
    \/ \E ok \in BOOLEAN : StoreNotified(ok) /\ UNCHANGED <<debounce_vars, menu_vars, service_vars>>

SpecMcp == Init /\ [][NextMcp]_vars

\* process_message ends: the interactive reply is sent, or, there being
\* none, the text is recorded as pending and its processing scheduled
ProcessMessageEnds ==
    /\ last # NoLast
    /\ last' = NoLast
    /\ UNCHANGED conversation_state

NextMenu ==
    \/ ProcessMessageEnds /\ UNCHANGED <<debounce_vars, mcp_vars, service_vars>>
    \/ \E u \in Users : DebouncedGetsUserState(u) /\ UNCHANGED <<debounce_vars, mcp_vars, service_vars>>
    \/ \E u \in Users, store_totals \in Budgets :
          SaveBudget(u, store_totals) /\ UNCHANGED <<debounce_vars, mcp_vars, service_vars>>
    \/ \E u \in Users, start \in ClarificationStarts, answer \in AiAnswers :
          StartClarification(u, start, answer) /\ UNCHANGED <<debounce_vars, mcp_vars, service_vars>>
    \/ \E u \in Users, text \in {"0", "1", "CP-II"}, found \in FoundLists,
          answer \in AiAnswers, raises \in RaisePoints :
          HandleClarificationReply(u, text, found, answer, raises)
          /\ UNCHANGED <<debounce_vars, mcp_vars, service_vars>>
    \/ \E u \in Users, text \in Texts, raises \in NotifyPoints :
          HandleMenuText(u, text, raises) /\ UNCHANGED <<debounce_vars, mcp_vars, service_vars>>

SpecMenu == Init /\ [][NextMenu]_vars

Others == <<_generation_counter, pending_tasks, tasks, webhooks, mcp_vars, menu_vars, service, turn,
           earlier, conversation_manager>>

NextService ==
    \/ \E u \in Users, fail \in GreetingFails : process_message(u, fail) /\ UNCHANGED Others
    \/ \E i \in 1..MaxMsgs, created_at \in Stamps, ok \in BOOLEAN :
          RecordTempMessage(i, created_at, ok) /\ UNCHANGED Others
    \/ \E i \in 1..MaxMsgs, ok \in BOOLEAN : UpdatePresence(i, ok) /\ UNCHANGED Others
    \/ \E i \in 1..MaxMsgs : DebounceSleepEnds(i) /\ UNCHANGED Others
    \/ \E i \in 1..MaxMsgs, ok \in BOOLEAN : GetTempMessages(i, ok) /\ UNCHANGED Others
    \/ \E i \in 1..MaxMsgs, ok \in BOOLEAN : BuildMessageHistory(i, ok) /\ UNCHANGED Others
    \/ \E i \in 1..MaxMsgs, ok \in BOOLEAN : ResponseGenerated(i, ok) /\ UNCHANGED Others
    \/ \E i \in 1..MaxMsgs, ok \in BOOLEAN : LogUserTurn(i, ok) /\ UNCHANGED Others
    \/ \E i \in 1..MaxMsgs, ok \in BOOLEAN : LogReply(i, ok) /\ UNCHANGED Others
    \/ \E i \in 1..MaxMsgs, ok \in BOOLEAN : DeleteTempMessages(i, ok) /\ UNCHANGED Others
    \/ \E i \in 1..MaxMsgs, ok \in BOOLEAN : SendWhatsappMessage(i, ok) /\ UNCHANGED Others

SpecService == InitServices /\ [][NextService]_vars

\* the stores a turn can find: up to MaxMsgs pending rows, the i-th with
\* text i, bare or after a blank, or with no content; up to HISTORY_LIMIT + 1
\* persisted turns, with content or without
PendingRows ==
    UNION {[1..n -> [user : Users, role : {"user"}, created_at : Stamps,
                     content : {<<>>, <<"x">>, <<" ", "x">>}]] : n \in 0..MaxMsgs}
PersistedRows ==
    UNION {[1..n -> [user : Users, role : {"user"}, created_at : Stamps,
                     content : {<<>>, <<"p">>}]] : n \in 0..(HISTORY_LIMIT + 1)}
Lettered(row, i) ==
    [row EXCEPT !.content = IF @ = <<>> THEN <<>>
                            ELSE SubSeq(@, 1, Len(@) - 1) \o TextOf(i)]

InitTurn ==
    /\ InitMcp /\ InitMenu /\ InitService
    /\ service \in Services \cup {"app.main"}
    /\ \E rows \in PendingRows :
          \* WebhookHandler strips the text it hands to a service, the
          \* webhook of app/main.py records it as received
          /\ service # "app.main" => \A i \in 1..Len(rows) : Len(rows[i].content) <= 1
          /\ inbound = [i \in 1..Len(rows) |-> Lettered(rows[i], i)]
          /\ temp_messages = [i \in 1..Len(rows) |-> i]
    /\ \E rows \in PersistedRows :
          conversation_context = [i \in 1..Len(rows) |-> Lettered(rows[i], i + MaxMsgs)]
    /\ _generation_counter = [u \in Users |-> 0]
    /\ pending_tasks = [u \in Users |-> 0]
    /\ tasks = [u \in Users |-> <<>>]
    /\ webhooks = {}

NextTurn ==
    \/ \E u \in Users : \E recent_messages \in get_recent_messages(u, HISTORY_LIMIT) :
          BuildHistory(u, recent_messages)
          /\ UNCHANGED <<debounce_vars, mcp_vars, menu_vars, service, requests, outbox, earlier,
                       conversation_manager>>
    \/ \E u \in Users : \E temp_rows \in TempResults(u) :
          AppendConsolidated(temp_rows)
          /\ UNCHANGED <<debounce_vars, mcp_vars, menu_vars, service, requests, outbox, earlier,
                       conversation_manager>>
    \/ \E catalog_context \in CatalogContexts :
          PrepareResponse(catalog_context)
          /\ UNCHANGED <<debounce_vars, mcp_vars, menu_vars, service, requests, outbox, earlier,
                       conversation_manager>>

SpecTurn == InitTurn /\ [][NextTurn]_vars

\* ------------ ChatbotService.process_message: interactive reply or queue
\* a process_message that queues the text although it has answered it
InteractiveProcessed_queued(ok) ==
    /\ last # NoLast /\ last.reply # ""
    /\ outbox' = IF ok THEN outbox \cup {[user |-> last.user, text |-> <<last.reply>>]}
                 ELSE outbox
    /\ requests' = Append(requests, NewCall(last.user))
    /\ last' = NoLast
    /\ UNCHANGED <<conversation_state, inbound, temp_messages, conversation_context>>

\* there is an interactive reply: it is sent (_send_whatsapp_message
\* catches a failure), the presence is updated and process_message returns
InteractiveProcessed(ok) ==
    /\ last # NoLast /\ last.reply # ""
    /\ outbox' = IF ok THEN outbox \cup {[user |-> last.user, text |-> <<last.reply>>]}
                 ELSE outbox
    /\ last' = NoLast
    /\ UNCHANGED <<conversation_state, inbound, temp_messages, conversation_context,
                   requests>>

\* there is none: process_message goes on to the greeting, records the
\* text and schedules its processing
Queued(fail) ==
    /\ last # NoLast /\ last.reply = ""
    /\ process_message(last.user, fail)
    /\ last' = NoLast
    /\ UNCHANGED conversation_state

\* a text arrives: process_message first passes it to
\* handle_interactive_option
ReceiveText(u, text, raises) ==
    /\ Len(requests) < MaxMsgs
    /\ HandleMenuText(u, text, raises)

InitMessage == InitDebounce /\ InitMcp /\ InitMenu /\ InitService /\ service = "ChatbotService"

Rest == <<_generation_counter, pending_tasks, tasks, webhooks, mcp_vars, service, turn, earlier,
         conversation_manager>>

NextMessage ==
    \/ \E u \in Users, text \in {"1", "3", "CP-II"}, raises \in NotifyPoints :
          ReceiveText(u, text, raises) /\ UNCHANGED <<debounce_vars, mcp_vars, service_vars>>
    \/ \E ok \in BOOLEAN : InteractiveProcessed(ok) /\ UNCHANGED Rest
    \/ Queued("") /\ UNCHANGED Rest
    \/ \E u \in Users : DebouncedGetsUserState(u) /\ UNCHANGED <<debounce_vars, mcp_vars, service_vars>>
    \/ \E u \in Users :
          SaveBudget(u, store_totals_of(<<AllProducts[1], AllProducts[2]>>))
          /\ UNCHANGED <<debounce_vars, mcp_vars, service_vars>>
    \/ \E i \in 1..MaxMsgs : RecordTempMessage(i, 1, TRUE) /\ UNCHANGED Others
    \/ \E i \in 1..MaxMsgs : UpdatePresence(i, TRUE) /\ UNCHANGED Others
    \/ \E i \in 1..MaxMsgs : DebounceSleepEnds(i) /\ UNCHANGED Others
    \/ \E i \in 1..MaxMsgs : GetTempMessages(i, TRUE) /\ UNCHANGED Others
    \/ \E i \in 1..MaxMsgs : BuildMessageHistory(i, TRUE) /\ UNCHANGED Others
    \/ \E i \in 1..MaxMsgs : ResponseGenerated(i, TRUE) /\ UNCHANGED Others
    \/ \E i \in 1..MaxMsgs : LogUserTurn(i, TRUE) /\ UNCHANGED Others
    \/ \E i \in 1..MaxMsgs : LogReply(i, TRUE) /\ UNCHANGED Others
    \/ \E i \in 1..MaxMsgs : DeleteTempMessages(i, TRUE) /\ UNCHANGED Others
    \/ \E i \in 1..MaxMsgs : SendWhatsappMessage(i, TRUE) /\ UNCHANGED Others

SpecMessage == InitMessage /\ [][NextMessage]_vars

\* ------------------------- _process_with_mcp, one turn after the other
\* process_debounced_messages of user u calls _process_with_mcp, the turn
\* before it having returned
TurnBegins(u) ==
    /\ StartTurn
    /\ earlier' = [user |-> u,
                   ended |-> IF mcp_pc = "ABORTED" THEN mcp_result ELSE mcp_pc,
                   executed |-> [earlier.executed EXCEPT
                                    ![earlier.user] =
                                        IF tool_call_history = <<>> THEN <<>>
                                        ELSE tool_call_history[Len(tool_call_history)]]]

\* the responses that ask for one call, its arguments being JSON, or none
OneCallResponses ==
    {response \in Responses :
        /\ Len(response.tool_calls) <= 1
        /\ \A i \in 1..Len(response.tool_calls) : response.tool_calls[i].arguments.valid}

NextHistory ==
    \/ \E u \in TurnUsers :
          TurnBegins(u)
          /\ UNCHANGED <<debounce_vars, menu_vars, service, requests, outbox, turn,
                         conversation_manager>>
    \/ \E response \in OneCallResponses :
          ProviderResponds(response) /\ UNCHANGED <<debounce_vars, menu_vars, service_vars>>
    \/ \E outcome \in {"success_no_phone", "failure"} :
          ToolReturns(outcome) /\ UNCHANGED <<debounce_vars, menu_vars, service_vars>>

SpecHistory == Init /\ [][NextHistory]_vars

\* ------- services/conversation_manager.py and modules/message_processor
\* conversation_manager.debounce_delay, as the simulated server sets it
debounce_delay == 3
\* start_debounce_timer calls made
MaxCalls == 2
\* the clock runs to here
MaxTime == 6

Welcome == "welcome"
AiReply == "ai"
ErrorMsg == "error"

\* the task of debounce_callback.  Ghost fields: started (the time of the
\* call that created it), kept (the task was stored in the user's
\* ConversationState), invoked_at (when callback_func was called, -1 while
\* it was not), logged (the exception of callback_func was logged)
NewTimer(u, now, kept) ==
    [user |-> u, started |-> now, pc |-> "sleep", cancelled |-> FALSE, kept |-> kept,
     invoked_at |-> -1, logged |-> FALSE]

\* ConversationManager.start_debounce_timer: the task stored for the user is
\* cancelled when it is not done, the new task is created, and it is stored
\* in the user's ConversationState: a KeyError when the user has none
start_debounce_timer(cm, u) ==
    LET conversation == cm.active_conversations[u]
        old_task == IF conversation.present THEN conversation.debounce_task ELSE 0
        timers == IF old_task # 0 /\ cm.timers[old_task].pc # "done"
                  THEN [cm.timers EXCEPT ![old_task].cancelled = TRUE,
                                         ![old_task].pc = "cancelling"]
                  ELSE cm.timers
    IN [cm EXCEPT !.timers = Append(timers, NewTimer(u, cm.now, conversation.present)),
                  !.active_conversations[u].debounce_task =
                      IF conversation.present THEN Len(timers) + 1 ELSE @]

\* ConversationManager.process_incoming_message: the user's ConversationState
\* is created when there is none
process_incoming_message(cm, u) == [cm EXCEPT !.active_conversations[u].present = TRUE]

determine_processing_strategy(is_first_today, has_context) ==
    IF is_first_today THEN "immediate"
    ELSE IF has_context THEN "debounced"
    ELSE "fallback"

Result(u, is_first_today, status, strategy, sent, timer) ==
    [user |-> u, is_first_today |-> is_first_today, status |-> status,
     strategy |-> strategy, sent |-> sent, timer |-> timer]

\* process_message_async.  is_first_today is what check_first_message_today
\* answered; ok is FALSE when the AI service raises: the except clause sends
\* the error message
process_message_async(cm, u, is_first_today, ok) ==
    LET cm1 == process_incoming_message(cm, u)
        strategy == determine_processing_strategy(is_first_today, TRUE)
    IN IF strategy = "immediate"
       THEN IF is_first_today
            THEN [cm1 EXCEPT !.result =
                     IF ok THEN Result(u, is_first_today, "success", "immediate",
                                       <<Welcome, AiReply>>, FALSE)
                     ELSE Result(u, is_first_today, "error", "", <<Welcome, ErrorMsg>>, FALSE)]
            ELSE [start_debounce_timer(cm1, u) EXCEPT !.result =
                     Result(u, is_first_today, "success", "debounced", <<>>, TRUE)]
       ELSE [cm1 EXCEPT !.result =
                IF ok THEN Result(u, is_first_today, "success", "fallback", <<AiReply>>, FALSE)
                ELSE Result(u, is_first_today, "error", "", <<ErrorMsg>>, FALSE)]

ProcessMessageAsync(u, is_first_today, ok) ==
    conversation_manager' = process_message_async(conversation_manager, u, is_first_today, ok)

StartDebounceTimer(u) ==
    /\ Len(conversation_manager.timers) < MaxCalls
    /\ conversation_manager' = start_debounce_timer(conversation_manager, u)

\* time passes
Tick ==
    /\ conversation_manager.now < MaxTime
    /\ conversation_manager' = [conversation_manager EXCEPT !.now = @ + 1]

Timers == 1..Len(conversation_manager.timers)

\* asyncio.sleep(self.debounce_delay) is over: callback_func is called when
\* the user is in active_conversations, else the task ends
TimerWakes(i) ==
    LET t == conversation_manager.timers[i]
    IN /\ t.pc = "sleep"
       /\ conversation_manager.now >= t.started + debounce_delay
       /\ conversation_manager' =
             IF conversation_manager.active_conversations[t.user].present
             THEN [conversation_manager EXCEPT !.timers[i].pc = "callback",
                                               !.timers[i].invoked_at = conversation_manager.now]
             ELSE [conversation_manager EXCEPT !.timers[i].pc = "done"]

\* callback_func returns, or raises and except Exception logs it
CallbackEnds(i, ok) ==
    /\ conversation_manager.timers[i].pc = "callback"
    /\ conversation_manager' = [conversation_manager EXCEPT !.timers[i].pc = "done",
                                                            !.timers[i].logged = ~ok]

\* CancelledError reaches the task at its await: logged and re-raised
TimerCancelled(i) ==
    /\ conversation_manager.timers[i].pc = "cancelling"
    /\ conversation_manager' = [conversation_manager EXCEPT !.timers[i].pc = "done"]

Untouched == <<debounce_vars, mcp_vars, menu_vars, service, requests, outbox, turn, earlier>>

NextManager ==
    \/ \E u \in Users, is_first_today \in BOOLEAN, ok \in BOOLEAN :
          ProcessMessageAsync(u, is_first_today, ok) /\ UNCHANGED Untouched
    \/ \E u \in Users : StartDebounceTimer(u) /\ UNCHANGED Untouched
    \/ Tick /\ UNCHANGED Untouched
    \/ \E i \in Timers : TimerWakes(i) /\ UNCHANGED Untouched
    \/ \E i \in Timers, ok \in BOOLEAN : CallbackEnds(i, ok) /\ UNCHANGED Untouched
    \/ \E i \in Timers : TimerCancelled(i) /\ UNCHANGED Untouched

SpecManager == Init /\ [][NextManager]_vars

\* ------------------------- app/main.py: maybe_send_daily_greeting
\* hours LOCAL_ZONE (America/Sao_Paulo) is behind UTC
UtcOffset == 3
HoursPerDay == 24
\* the UTC hours at which a webhook call is made: 03 h, 23 h, 02 h and 03 h
\* of the day after (23 h and midnight of the local day before)
Times == {3, 23, 26, 27}

\* datetime.astimezone(LOCAL_ZONE).date() of a UTC hour
LocalDate(hour) == (hour - UtcOffset) \div HoursPerDay

\* SupabaseService.get_latest_message: the user's row with the greatest
\* created_at, None when the user has no row
get_latest_message(u) ==
    LET rows == {i \in 1..Len(conversation_context) : conversation_context[i].user = u}
    IN IF rows = {} THEN NoneValue
       ELSE conversation_context[CHOOSE i \in rows :
                \A j \in rows : conversation_context[j].created_at
                                   <= conversation_context[i].created_at]

\* should_send of maybe_send_daily_greeting
should_send(latest_message, now) ==
    \/ latest_message = NoneValue
    \/ LocalDate(latest_message.created_at) # LocalDate(now)

\* webhook up to the first await of maybe_send_daily_greeting
WebhookReceives(u, now) ==
    /\ Len(requests) < MaxMsgs
    /\ \A i \in 1..Len(requests) : requests[i].now <= now
    /\ requests' = Append(requests, [user |-> u, now |-> now, pc |-> "get_latest_message",
                                     greeted |-> FALSE])
    /\ UNCHANGED <<conversation_context, outbox>>

\* get_latest_message returns or raises: the greeting is skipped, or
\* log_message is awaited
LatestMessageRead(i, ok) ==
    /\ requests[i].pc = "get_latest_message"
    /\ requests' = [requests EXCEPT ![i].pc =
                       IF ok /\ should_send(get_latest_message(requests[i].user), requests[i].now)
                       THEN "save_message" ELSE "done"]
    /\ UNCHANGED <<conversation_context, outbox>>

\* log_message of the greeting: the row is saved, or the failure is logged
GreetingLogged(i, ok) ==
    /\ requests[i].pc = "save_message"
    /\ conversation_context' =
           IF ok THEN Append(conversation_context,
                             [user |-> requests[i].user, role |-> "assistant",
                              content |-> Greeting, created_at |-> requests[i].now])
           ELSE conversation_context
    /\ requests' = [requests EXCEPT ![i].pc = "send_message"]
    /\ UNCHANGED outbox

\* send_whatsapp_message of the greeting: delivered, or the failure is logged
GreetingSent(i, ok) ==
    /\ requests[i].pc = "send_message"
    /\ outbox' = IF ok THEN outbox \cup {[user |-> requests[i].user, text |-> Greeting]}
                 ELSE outbox
    /\ requests' = [requests EXCEPT ![i].pc = "done", ![i].greeted = ok]
    /\ UNCHANGED conversation_context

Apart == <<inbound, temp_messages, _generation_counter, pending_tasks, tasks, webhooks,
           mcp_vars, menu_vars, service, turn, earlier, conversation_manager>>

NextGreeting ==
    \/ \E u \in Users, now \in Times : WebhookReceives(u, now) /\ UNCHANGED Apart
    \/ \E i \in 1..Len(requests), ok \in BOOLEAN : LatestMessageRead(i, ok) /\ UNCHANGED Apart
    \/ \E i \in 1..Len(requests), ok \in BOOLEAN : GreetingLogged(i, ok) /\ UNCHANGED Apart
    \/ \E i \in 1..Len(requests), ok \in BOOLEAN : GreetingSent(i, ok) /\ UNCHANGED Apart

SpecGreeting == Init /\ [][NextGreeting]_vars

\* ------------------------------------------------ menu: properties
Handled == last # NoLast /\ last.active
PriorityBranch ==
    IF last.pre_clarification THEN "clarification"
    ELSE IF last.pre_store_selection THEN "store_selection"
    ELSE IF last.pre_confirmation # "" THEN "purchase_confirmation"
    ELSE "menu"

\* C7: a text sent by a user that has a ConversationState is handled by
\* exactly one branch, the first in the order clarification, store
\* selection, purchase confirmation, top-level menu whose flag is set,
\* whatever the text; while clarification is awaited the text goes to the
\* clarification handler only, finalizes no purchase and leaves the state
\* in place; when it is not awaited the clarification handler does not run.
C7_OneBranchByAwaitingFlags ==
    Handled =>
        /\ last.branch = PriorityBranch
        /\ Len(last.handlers) <= 1
        /\ last.pre_clarification =>
              /\ last.handlers = <<"_handle_product_clarification">>
              /\ last.finalized = ""
              /\ has_active_state(last.user)
        /\ ~last.pre_clarification =>
              /\ last.handlers # <<"_handle_product_clarification">>
              /\ last.marked = ""

\* '1' sent while clarification is awaited and a budget is saved: it is
\* taken as the clarification answer
C7_Witness ==
    /\ Handled
    /\ last.pre_clarification
    /\ last.text = "1"
    /\ last.branch = "clarification"
    /\ last.reply = "Produto adicionado!"
    /\ conversation_state[last.user].store_totals # <<>>

TotalOf(name, store_totals) ==
    (CHOOSE i \in 1..Len(store_totals) : store_totals[i].name = name)
NamesOf(store_totals) == {store_totals[i].name : i \in 1..Len(store_totals)}

\* C8: at the top-level menu '3' lists every store of store_totals once,
\* in ascending order of total, and '1', store_totals not being empty,
\* finalizes the purchase at a store whose total is the least.
C8_ShowAllAscendingFinalizeCheapest ==
    (Handled /\ last.branch = "menu") =>
        /\ last.text = "3" =>
              LET store_totals == conversation_state[last.user].store_totals
                  total(n) == store_totals[TotalOf(n, store_totals)].total
              IN /\ Len(last.listed) = Len(store_totals)
                 /\ Range(last.listed) = NamesOf(store_totals)
                 /\ \A i, j \in 1..Len(last.listed) :
                       i < j => total(last.listed[i]) <= total(last.listed[j])
        /\ last.text = "1" =>
              IF last.finalized = ""
              THEN /\ has_active_state(last.user)
                   /\ conversation_state[last.user].store_totals = <<>>
              ELSE /\ last.finalized \in NamesOf(last.pre_totals)
                   /\ \A j \in 1..Len(last.pre_totals) :
                         last.pre_totals[TotalOf(last.finalized, last.pre_totals)].total
                             <= last.pre_totals[j].total

\* stores A = 100, B = 90, C = 120, saved in that order, are listed B, A, C
C8_Witness ==
    /\ Handled
    /\ last.branch = "menu"
    /\ last.text = "3"
    /\ last.listed = <<"B", "A", "C">>
    /\ [i \in 1..3 |-> conversation_state[last.user].store_totals[i].name] = <<"A", "B", "C">>
    /\ [i \in 1..3 |-> conversation_state[last.user].store_totals[i].total] = <<100, 90, 120>>

\* C9 as stated: from a clarification state with two unresolved
\* categories each reply resolves exactly one of them, and the budget is
\* emitted and awaiting_clarification reset only by the reply that
\* resolves the last one, never by the first.
C9_OneCategoryPerReplyBudgetAfterBoth ==
    (Handled /\ last.branch = "clarification" /\ last.marked # "") =>
        LET state == conversation_state[last.user]
            budget == last.reply = "Todos os produtos selecionados! ORCAMENTO FINAL"
        IN /\ last.marked \in last.pre_unresolved
           /\ Unresolved(state) = last.pre_unresolved \ {last.marked}
           /\ (budget \/ ~state.awaiting_clarification) => Unresolved(state) = {}

\* ---------------------------------------------- tool loop: properties
Ended == mcp_pc \in {"DONE", "ABORTED", "RAISED"}
LoopDetected == mcp_pc = "ABORTED" /\ mcp_result = Rephrase
SignatureOf(tool_call) == call_signature(tool_call.name, json_loads(tool_call.arguments))

\* C4 as stated: loop detection stops the turn on the third consecutive
\* request of a (tool name, arguments) pair, the two earlier requests of
\* the pair having been executed.
C4_AbortsOnThirdRepeat ==
    LoopDetected =>
        LET n == Len(tool_call_history)
        IN /\ n >= 2
           /\ tool_call_history[n] = loop_signature
           /\ tool_call_history[n - 1] = loop_signature

\* C4, amended: loop detection stops the turn, with the 'please rephrase'
\* message, at the first request whose signature is among the last three
\* signatures executed in the turn, so already at the second request of a
\* pair, consecutive or not; that request is not executed, and no
\* signature is executed twice within four consecutive executed calls.
C4_AbortsOnRepeatWithinLastThree ==
    LET n == Len(tool_call_history)
    IN /\ LoopDetected =>
             /\ loop_signature = SignatureOf(tool_calls[tool_index])
             /\ \E k \in 1..n : k > n - 3 /\ tool_call_history[k] = loop_signature
       /\ mcp_result = Rephrase => LoopDetected
       /\ \A i, j \in 1..n : (i < j /\ j - i <= 3) => tool_call_history[i] # tool_call_history[j]
       /\ mcp_pc \in {"EXECUTING_TOOLS", "NOTIFYING_STORE"} =>
             tool_call_history[n] = SignatureOf(tool_calls[tool_index])

\* the same pair requested twice in a row: the second request stops the turn
C4_Witness ==
    /\ LoopDetected
    /\ tool_call_history = <<loop_signature>>

\* C5 as stated: at most max_iterations provider calls in a turn, and a
\* turn whose last allowed round still asked for tools returns the generic
\* failure message.
C5_LastRoundToolsGiveFailure ==
    /\ provider_calls <= max_iterations
    /\ (mcp_pc \in {"DONE", "ABORTED"} /\ iteration = max_iterations /\ tool_calls # <<>>) =>
          mcp_result = GenericFailure

\* C5, amended: at most max_iterations provider calls in a turn, one per
\* round; when the calls requested by the response of the last allowed
\* round have all been executed the turn returns the generic failure
\* message, and it returns that message in no other case; a request of
\* that round which repeats one of the last three executed signatures
\* still ends the turn with the 'please rephrase' message.
C5_AtMostMaxIterationsCalls ==
    /\ provider_calls <= max_iterations
    /\ provider_calls = iteration
    /\ (mcp_pc \in {"DONE", "ABORTED"} /\ iteration = max_iterations /\ tool_calls # <<>>) =>
          IF loop_signature = <<>>
          THEN tool_index = Len(tool_calls) /\ mcp_result = GenericFailure
          ELSE mcp_result = Rephrase
    /\ mcp_result = GenericFailure =>
          /\ mcp_pc = "ABORTED"
          /\ provider_calls = max_iterations
          /\ tool_calls # <<>>

C5_Witness ==
    /\ mcp_pc = "ABORTED"
    /\ mcp_result = GenericFailure
    /\ provider_calls = max_iterations
    /\ Len(tool_call_history) >= max_iterations

\* C6 as stated: whatever the provider responds and the tools return, a
\* started turn ends DONE or ABORTED; only a failed provider call is not a
\* response.
C6_TurnEndsDoneOrAborted ==
    mcp_pc = "RAISED" => raised = "chat_with_tools"

\* ------------------------------------------------- debounce: properties
Bursts(u) == {Task(u, g).burst : g \in Generations(u)}
BurstGens(u, b) == {g \in Generations(u) : Task(u, g).burst = b}
BurstMsgs(u, b) == {Task(u, g).msg : g \in BurstGens(u, b)}
LastOf(u, b) == CHOOSE g \in BurstGens(u, b) : \A h \in BurstGens(u, b) : h <= g
Callers(u, b) == {g \in BurstGens(u, b) : Task(u, g).called}

RECURSIVE SeqOfSet(_)
\* the ids of a set, ascending (the order the rows were recorded in)
SeqOfSet(S) ==
    IF S = {} THEN <<>>
    ELSE LET m == CHOOSE x \in S : \A y \in S : x <= y
         IN <<m>> \o SeqOfSet(S \ {m})

\* the rows whose texts a consolidated content lists, in the order it lists them
IsSpace(c) == c = " "
IsLetter(c) == ~IsSpace(c)
IdOfLetter(c) == CHOOSE i \in 1..Len(Letters) : Letters[i] = c
ListedIds(content) ==
    LET ls == SelectSeq(content, IsLetter) IN [i \in 1..Len(ls) |-> IdOfLetter(ls[i])]

Content(t) == IF t.consolidated = NoneValue THEN <<>> ELSE t.consolidated.content

InCreatedAtOrder(ids) ==
    \A i, j \in 1..Len(ids) : i < j => inbound[ids[i]].created_at <= inbound[ids[j]].created_at

ConsumedBefore(u, g, m) ==
    \E h \in 1..(g - 1) : m \in Range(Task(u, h).fetched) /\ Task(u, h).deleted

\* the burst is over: its last timer has run (it was not cancelled asleep)
BurstOver(u, b) ==
    LET t == Task(u, LastOf(u, b)) IN t.pc = "done" /\ (t.cancelled => t.called)

\* C1 as stated: every burst of messages of one user, each scheduled less than
\* DEBOUNCE_SECONDS after the previous one, gets exactly one call of
\* process_debounced_messages, and the consolidated content of that call is
\* the contents of the burst's messages joined in created_at order.
C1_BurstExactlyItsMessages ==
    \A u \in Users : \A b \in Bursts(u) :
        BurstOver(u, b) =>
            /\ Cardinality(Callers(u, b)) = 1
            /\ \A g \in Callers(u, b) :
                  Task(u, g).fetched # <<>> =>
                      Content(Task(u, g)) = Join(TextsOf(sorted(SeqOfSet(BurstMsgs(u, b)))))

\* the timer of generation g is the last of its burst
IsLast(u, g) == g = Len(tasks[u]) \/ Task(u, g + 1).burst # Task(u, g).burst

\* C1 amended: a burst gets at most one call, made by the timer of its last
\* message, and exactly one once that timer has run; the content that call
\* consolidates lists, in created_at order, the rows it fetched, which hold
\* every message of the burst that an earlier run has not already consumed
\* (and whatever else of the user was still pending).
C1_BurstOneCall ==
    \A u \in Users : \A g \in Generations(u) :
        LET t == Task(u, g) IN
        /\ t.called => IsLast(u, g)
        /\ (IsLast(u, g) /\ t.pc = "done" /\ ~t.cancelled) => t.called
        /\ t.called =>
              /\ \A h \in t.burst..g :
                    Task(u, h).burst = t.burst
                    /\ (Task(u, h).msg \in Range(t.fetched) \/ ConsumedBefore(u, g, Task(u, h).msg))
              /\ t.consolidated # NoneValue =>
                    LET listed == ListedIds(t.consolidated.content)
                    IN /\ Range(listed) = Range(t.fetched)
                       /\ Len(listed) = Len(t.fetched)
                       /\ InCreatedAtOrder(listed)

\* a burst of two messages answered by one call that consolidated both, the
\* later recorded one stamped earlier
C1_Witness ==
    \E u \in Users : \E b \in Bursts(u) :
        /\ Cardinality(BurstGens(u, b)) >= 2
        /\ Task(u, LastOf(u, b)).called
        /\ BurstMsgs(u, b) \subseteq Range(Task(u, LastOf(u, b)).fetched)
        /\ Content(Task(u, LastOf(u, b))) = <<"b", " ", "a">>

\* C2: a timer calls process_debounced_messages only if the generation it
\* captured is the one stored in pending_tasks when its delay elapses, and a
\* timer superseded by a later message is at no step of the processing.
C2_OnlyCurrentGenerationProcesses ==
    \A u \in Users : \A g \in Generations(u) :
        /\ Task(u, g).called => Task(u, g).seen = g
        /\ g < _generation_counter[u] => Task(u, g).pc \in {"sleep", "cancelling", "done"}

\* a superseded timer ended without processing and its successor processed
C2_Witness ==
    \E u \in Users : \E g \in Generations(u) :
        /\ g + 1 \in Generations(u)
        /\ Task(u, g).cancelled /\ Task(u, g).pc = "done" /\ ~Task(u, g).called
        /\ Task(u, g + 1).called

RepliedAndLogged(t) == t.replied /\ t.logged_user /\ t.logged_reply

\* C3: a pending message is deleted from the store if and only if a reply for
\* the consolidated message containing it was generated and the consolidated
\* user turn and the reply were successfully logged; if reply generation
\* raises, no pending message is deleted.
C3_DeletedIffRepliedAndLogged ==
    /\ \A m \in 1..Len(inbound) :
          m \notin Range(temp_messages) =>
              \E u \in Users : \E g \in Generations(u) :
                  m \in Range(Task(u, g).fetched) /\ RepliedAndLogged(Task(u, g))
    /\ \A u \in Users : \A g \in Generations(u) :
          /\ ~Task(u, g).replied => ~Task(u, g).deleted
          /\ (Task(u, g).pc = "done" /\ ~Task(u, g).cancelled /\ RepliedAndLogged(Task(u, g)))
                => Range(Task(u, g).fetched) \cap Range(temp_messages) = {}

\* C10: a message scheduled after the previous timer fired and its run
\* completed arms the next generation; unless superseded in its turn that
\* timer makes a second call, and what the second call fetches holds none of
\* the messages the first call consumed (fetched and deleted).
C10_NextGenerationSeparateCall ==
    \A u \in Users : \A g \in Generations(u) :
        Task(u, g).after_done =>
            /\ g > 1 /\ Task(u, g - 1).called /\ Task(u, g - 1).pc = "done"
            /\ (Task(u, g).pc = "done" /\ ~Task(u, g).cancelled) => Task(u, g).called
            /\ Task(u, g - 1).deleted =>
                  Range(Task(u, g).fetched) \cap Range(Task(u, g - 1).fetched) = {}

\* two completed runs of one user, the second on a message that arrived after
\* the first had deleted what it consolidated
C10_Witness ==
    \E u \in Users : \E g \in Generations(u) :
        /\ Task(u, g).after_done /\ Task(u, g).called /\ Task(u, g).fetched # <<>>
        /\ Task(u, g).pc = "done"
        /\ Task(u, g - 1).deleted

\* C11 as stated: a message scheduled while a run of the same user is in
\* flight (its timer made the call of process_debounced_messages and the
\* call has not returned) does not cancel that run.
C11_InFlightRunNotCancelled ==
    \A u \in Users : \A g \in Generations(u) :
        Task(u, g).called => ~Task(u, g).cancelled

LiveTimers(u) == {g \in Generations(u) : Live(u, g)}

\* C13: at most one debounce timer task of a user is live (not finished,
\* not cancelled) in any state, and it is the one pending_tasks holds:
\* schedule_user_processing cancels the task it replaces before it creates
\* the next.
C13_AtMostOneLiveTimer ==
    \A u \in Users :
        /\ Cardinality(LiveTimers(u)) <= 1
        /\ \A g \in LiveTimers(u) : pending_tasks[u] = g /\ g = _generation_counter[u]

\* a timer retired while its run was in flight, its successor live
C13_Witness ==
    \E u \in Users : \E g \in Generations(u) :
        /\ g + 1 \in LiveTimers(u)
        /\ Task(u, g).cancelled /\ Task(u, g).called /\ Task(u, g).pc = "cancelling"

\* ------------------------------------- sleeping services: properties
Requests == 1..Len(requests)
\* the request is inside process_debounced_messages
Processing(i) ==
    /\ requests[i].pc # 0
    /\ \E k \in 1..requests[i].pc : Stages[k] = "get_temp_messages"
Consolidating(m) ==
    {i \in Requests : requests[i].consolidated # NoneValue /\ m \in Range(requests[i].fetched)}

\* C12 as stated: with ChatbotService and BaseChatbotService no two runs
\* of process_debounced_messages of one user are in progress at once, and
\* no pending message is part of the consolidated input of two runs.
C12_RunsSequentialEachMessageOnce ==
    /\ \A i, j \in Requests :
          (i # j /\ requests[i].user = requests[j].user) => ~(Processing(i) /\ Processing(j))
    /\ \A m \in 1..Len(inbound) : Cardinality(Consolidating(m)) <= 1

\* C14 as stated: BaseChatbotService deletes the pending messages of a
\* turn only after the consolidated user turn and the assistant reply are
\* logged: in no state are they deleted by a run whose reply is not logged.
C14_DeletedOnlyAfterLogged ==
    service = "BaseChatbotService" =>
        \A i \in Requests :
            requests[i].deleted =>
                /\ requests[i].logged_reply
                /\ requests[i].consolidated # NoneValue => requests[i].logged_user

ProviderRaised(i) == requests[i].raised \in {"chat_with_tools", "generate_response"}

\* C17 as stated: when the provider call of a debounced turn raises, the
\* exception leaves the turn, the turn deletes no pending message, and the
\* user is sent an apology (a text that is neither the greeting nor a
\* generated reply).
C17_ProviderFailureGivesApology ==
    \A i \in Requests :
        ProviderRaised(i) =>
            /\ requests[i].result = "error"
            /\ ~requests[i].deleted
            /\ \E o \in outbox :
                  o.user = requests[i].user /\ o.text \notin {Greeting, ReplyText}

\* C19 as stated: a failure of send_message or of a presence update never
\* leaves the turn as an exception.
C19_TransportFailureSwallowed ==
    \A i \in Requests :
        requests[i].raised \notin {"send_message", "send_presence", "update_presence"}

\* ------------------------------------------- turn list: properties
Consolidated == turn.pc \in {"consolidated", "catalog_reply", "provider_called"}
Stamp(id) == inbound[id].created_at
\* the position of a row in the list given to _consolidate_temp_messages
PositionOf(id) == CHOOSE i \in 1..Len(turn.input) : turn.input[i] = id
\* the rows of the list, created_at ascending, rows of equal created_at in
\* the order of the list
StableOrder ==
    CHOOSE o \in [1..Len(turn.input) -> Range(turn.input)] :
        \A i, j \in 1..Len(turn.input) :
            i < j => \/ Stamp(o[i]) < Stamp(o[j])
                     \/ Stamp(o[i]) = Stamp(o[j]) /\ PositionOf(o[i]) < PositionOf(o[j])
HasContent(id) == inbound[id].content # <<>>
ContentsOf(ids) == [i \in 1..Len(ids) |-> inbound[ids[i]].content]

\* C15 as stated: _consolidate_temp_messages returns None when no pending
\* message has content; else one message whose content is the contents of
\* the pending messages, created_at ascending and equal stamps in input
\* order, joined by a single space, with the role and created_at of the
\* earliest pending message; the pending rows stay as they were.
C15_ContentsJoinedBySpace ==
    Consolidated =>
        LET ordered == SelectSeq(StableOrder, HasContent)
        IN IF ordered = <<>> THEN turn.consolidated = NoneValue
           ELSE /\ turn.consolidated # NoneValue
                /\ turn.consolidated.content = Join(ContentsOf(ordered))
                /\ turn.consolidated.role = inbound[StableOrder[1]].role
                /\ turn.consolidated.created_at = Stamp(StableOrder[1])
                /\ Range(turn.input) = Range(temp_messages)

\* C15, amended: the content is the non-empty contents of the pending
\* messages, created_at ascending and equal stamps in input order, joined
\* by a single space, with the blanks at the two ends of the joined text
\* removed; the rest as stated.
C15_ContentsJoinedAndStripped ==
    Consolidated =>
        LET ordered == SelectSeq(StableOrder, HasContent)
        IN IF ordered = <<>> THEN turn.consolidated = NoneValue
           ELSE /\ turn.consolidated # NoneValue
                /\ turn.consolidated.content = Strip(Join(ContentsOf(ordered)))
                /\ turn.consolidated.role = inbound[StableOrder[1]].role
                /\ turn.consolidated.created_at = Stamp(StableOrder[1])
                /\ \A id \in Range(turn.input) : Stamp(StableOrder[1]) <= Stamp(id)
                /\ Range(turn.input) = Range(temp_messages)

\* two pending messages of equal created_at, handed over as b then a with
\* a blank before b: the content is "b a", the leading blank gone
C15_Witness ==
    /\ Consolidated
    /\ turn.input = <<2, 1>>
    /\ Stamp(1) = Stamp(2)
    /\ inbound[2].content = <<" ", "b">>
    /\ turn.consolidated.content = <<"b", " ", "a">>

\* the persisted row a history entry was made from (contents are distinct)
RowOf(entry) ==
    CHOOSE k \in 1..Len(conversation_context) : conversation_context[k].content = entry.content
IsTurn(entry) ==
    \E k \in 1..Len(conversation_context) :
        /\ conversation_context[k].content = entry.content
        /\ conversation_context[k].role = entry.role
        /\ entry.content # <<>>
Newer(k) ==
    {j \in 1..Len(conversation_context) :
        conversation_context[j].created_at > conversation_context[k].created_at}
\* persisted turns, at most HISTORY_LIMIT, among the most recent, ascending
RecentAscending(body) ==
    /\ Len(body) <= HISTORY_LIMIT
    /\ \A i \in 1..Len(body) :
          IsTurn(body[i]) /\ Cardinality(Newer(RowOf(body[i]))) < HISTORY_LIMIT
    /\ \A i, j \in 1..Len(body) :
          i < j => /\ RowOf(body[i]) # RowOf(body[j])
                   /\ conversation_context[RowOf(body[i])].created_at
                          <= conversation_context[RowOf(body[j])].created_at
Current == IF turn.consolidated = NoneValue THEN <<>> ELSE <<turn.consolidated>>

\* C16 as stated: the list passed to the provider is at most HISTORY_LIMIT
\* persisted turns of the user, created_at ascending, followed by the
\* consolidated message as its last element, and no provider call is made
\* before it is passed.
C16_HistoryThenConsolidatedLast ==
    turn.pc = "provider_called" =>
        LET n == Len(turn.provider_input) - Len(Current)
        IN /\ n >= 0
           /\ SubSeq(turn.provider_input, n + 1, Len(turn.provider_input)) = Current
           /\ RecentAscending(SubSeq(turn.provider_input, 1, n))
           /\ turn.asked = 0

\* C16, amended: the list passed to the provider is, in this order, the
\* system prompt (BaseChatbotService only), at most HISTORY_LIMIT persisted
\* turns of the user that have content, among the most recent and
\* created_at ascending, the consolidated message as the newest user turn,
\* and the catalog's system message when the catalog step gave a model text
\* and no user text (app/main.py and ChatbotService only); fetching the
\* turns and appending the consolidated message make no provider call, the
\* catalog step that follows them does.
C16_TurnListAroundHistory ==
    /\ turn.pc \in {"history", "consolidated"} => turn.asked = 0
    /\ (turn.pc = "provider_called" /\ service = "BaseChatbotService") => turn.asked = 0
    /\ turn.pc = "provider_called" =>
          \E head \in {<<>>, <<SystemPrompt>>}, tail \in {<<>>, <<ModelContext>>} :
              LET n == Len(turn.provider_input) - Len(head) - Len(Current) - Len(tail)
              IN /\ n >= 0
                 /\ (head # <<>>) <=> service = "BaseChatbotService"
                 /\ tail # <<>> => service # "BaseChatbotService"
                 /\ turn.provider_input =
                        head \o SubSeq(turn.provider_input, Len(head) + 1, Len(head) + n)
                             \o Current \o tail
                 /\ RecentAscending(SubSeq(turn.provider_input, Len(head) + 1, Len(head) + n))

\* app/main.py, more persisted turns than the limit, a catalog with a model
\* text only: the list is HISTORY_LIMIT turns, the consolidated message and
\* the catalog's system message
C16_Witness ==
    /\ turn.pc = "provider_called"
    /\ service = "app.main"
    /\ Len(conversation_context) > HISTORY_LIMIT
    /\ Len(turn.provider_input) = HISTORY_LIMIT + 2
    /\ turn.provider_input[HISTORY_LIMIT + 1] = turn.consolidated
    /\ turn.provider_input[HISTORY_LIMIT + 2] = ModelContext
    /\ conversation_context[RowOf(turn.provider_input[1])].created_at
           < conversation_context[RowOf(turn.provider_input[2])].created_at

\* C18 as stated: no error of a tool call requested by the model, its
\* arguments not being valid JSON or not fitting the tool included, leaves
\* _process_with_mcp as an exception.
C18_ToolErrorsNeverRaise ==
    raised \notin {"json.loads", "execute_tool"}

\* C20: whether the notification of the store succeeds or fails, the step
\* that follows a successful finalize_purchase appends the tool result and
\* goes on with the for loop or the while loop; a failed notification never
\* ends the turn.
C20_NotificationFailureOnlyLogged ==
    [][mcp_pc = "NOTIFYING_STORE" =>
          /\ AppendResult
          /\ messages'[Len(messages')] =
                 [role |-> "tool", tool_call_id |-> tool_call_id(iteration, tool_index)]
          /\ raised' # "send_message"]_vars

\* a turn that ended DONE after the notification of the store had failed
C20_Witness ==
    /\ store_notified = "failed"
    /\ mcp_pc = "DONE"
    /\ \E i \in 1..Len(tool_call_history) : tool_call_history[i][1] = "finalize_purchase"

\* ------------------------------------------ menu: the digits of each level
\* the state of the user whose text is being handled, before and after
Before == get_user_state(conversation_state, last'.user)
After == conversation_state'[last'.user]
Handles(branch) ==
    /\ last = NoLast /\ last' # NoLast
    /\ last'.active
    /\ last'.branch = branch

\* store `name` can stand at position i when store_totals is put in
\* ascending order of total
RankedAt(name, i, store_totals) ==
    LET total(n) == store_totals[TotalOf(n, store_totals)].total
        below == {j \in 1..Len(store_totals) : store_totals[j].total < total(name)}
        upto == {j \in 1..Len(store_totals) : store_totals[j].total <= total(name)}
    IN /\ name \in NamesOf(store_totals)
       /\ Cardinality(below) < i
       /\ i <= Cardinality(upto)

SelectionErrors ==
    {"Opcao invalida.", "Por favor, digite apenas o numero da opcao desejada."}

\* what a text does while store selection is awaited, a text for which
\* Chosen(text) holding i in 1..number of stores being one that selects
SelectionRule(Chosen(_)) ==
    Handles("store_selection") =>
        LET text == last'.text
            store_totals == Before.store_totals
        IN IF text = "0"
           THEN /\ After = [Before EXCEPT !.awaiting_store_selection = FALSE]
                /\ After.awaiting_purchase_confirmation = ""
                /\ ~Get(After, "awaiting_clarification", FALSE)
           ELSE IF Chosen(text) /\ int(text) \in 1..Len(store_totals)
           THEN /\ RankedAt(After.awaiting_purchase_confirmation, int(text), store_totals)
                /\ After.awaiting_purchase_confirmation
                       = format_all_stores_details(store_totals)[int(text)]
                /\ After.selected_store_data.name = After.awaiting_purchase_confirmation
                /\ ~After.awaiting_store_selection
                /\ After.store_totals = store_totals
                /\ last'.reply = "best_price_details"
           ELSE /\ conversation_state' = conversation_state
                /\ last'.reply \in SelectionErrors

IsDigit(text) == \E i \in 1..Len(Digits) : Digits[i] = text

\* C21 as stated: while store selection is awaited, a one-digit text i
\* with 1 <= i <= number of stores selects the store at position i of
\* store_totals in ascending order of total, the one 'show all' numbers i,
\* and moves to purchase confirmation for it; '0' returns to the top-level
\* menu keeping store_totals; any other text leaves the ConversationState
\* unchanged and returns an error prompt.
C21_DigitSelectsOthersUnchanged == [][SelectionRule(IsDigit)]_vars

\* C21: the same, the selecting texts being all those int() reads as a
\* number i with 1 <= i <= number of stores, a digit after a sign or a
\* zero included; the texts that leave the ConversationState unchanged are
\* those int() rejects or reads as a number outside that range.
C21_IntSelectsOthersUnchanged == [][SelectionRule(IsInt)]_vars

\* with stores A = 100, B = 90, C = 120 saved in that order, '2' selects A
C21_Witness ==
    /\ Handled
    /\ last.branch = "store_selection"
    /\ last.text = "2"
    /\ conversation_state[last.user].awaiting_purchase_confirmation = "A"
    /\ ~conversation_state[last.user].awaiting_store_selection
    /\ Len(conversation_state[last.user].store_totals) = 3
    /\ [i \in 1..3 |-> conversation_state[last.user].store_totals[i].name] = <<"A", "B", "C">>
    /\ [i \in 1..3 |-> conversation_state[last.user].store_totals[i].total] = <<100, 90, 120>>

ConfirmationPrompt == "Por favor, digite 1 para finalizar a compra ou 0 para voltar ao menu."

\* C22: a text handled while purchase confirmation is awaited (and nothing
\* the dispatcher looks at first): '1' finalizes the purchase at the store
\* that was shown or selected and the user's state is cleared, the message
\* to the store having been sent or having failed; '0' finalizes nothing
\* and clears the state; any other text leaves the ConversationState
\* unchanged and the reply is the prompt for 1 or 0.
C22_ConfirmationDigits ==
    [][Handles("purchase_confirmation") =>
          LET text == last'.text
          IN IF text = "1"
             THEN /\ last'.finalized = Before.awaiting_purchase_confirmation
                  /\ last'.finalized = Before.selected_store_data.name
                  /\ last'.notified \in {"sent", "failed"}
                  /\ After = NoneValue
             ELSE IF text = "0"
             THEN /\ last'.finalized = ""
                  /\ After = NoneValue
             ELSE /\ last'.finalized = ""
                  /\ conversation_state' = conversation_state
                  /\ last'.reply = ConfirmationPrompt]_vars

\* store A, which is not the cheapest, was selected and is finalized; the
\* message to the store failed and the state is cleared all the same
C22_Witness ==
    /\ Handled
    /\ last.branch = "purchase_confirmation"
    /\ last.text = "1"
    /\ last.finalized = "A"
    /\ last.notified = "failed"
    /\ "A" \in NamesOf(last.pre_totals)
    /\ \E j \in 1..Len(last.pre_totals) :
          last.pre_totals[j].total < last.pre_totals[TotalOf("A", last.pre_totals)].total
    /\ ~has_active_state(last.user)

\* C23: a text handled at the top level (nothing awaited) by a user with
\* a saved budget: '1' finalizes the purchase at a store of least total and
\* clears the state; '2' shows such a store and awaits the purchase
\* confirmation for it; '3' lists all the stores and awaits the store
\* selection; '0' clears the state; any other text gets no interactive
\* reply and leaves the ConversationState unchanged.
C23_TopLevelDigits ==
    [][(Handles("menu") /\ Before.store_totals # <<>>) =>
          LET text == last'.text
              store_totals == Before.store_totals
          IN IF text = "1"
             THEN /\ RankedAt(last'.finalized, 1, store_totals)
                  /\ After = NoneValue
             ELSE IF text = "2"
             THEN /\ RankedAt(After.awaiting_purchase_confirmation, 1, store_totals)
                  /\ last'.listed = <<After.awaiting_purchase_confirmation>>
                  /\ After.selected_store_data.name = After.awaiting_purchase_confirmation
                  /\ After = [Before EXCEPT
                                 !.awaiting_purchase_confirmation =
                                     After.awaiting_purchase_confirmation,
                                 !.selected_store_data = After.selected_store_data]
                  /\ last'.finalized = ""
             ELSE IF text = "3"
             THEN /\ After = [Before EXCEPT !.awaiting_store_selection = TRUE]
                  /\ Range(last'.listed) = NamesOf(store_totals)
                  /\ last'.finalized = ""
             ELSE IF text = "0"
             THEN /\ After = NoneValue
                  /\ last'.finalized = ""
             ELSE /\ last'.reply = ""
                  /\ last'.finalized = ""
                  /\ conversation_state' = conversation_state]_vars

\* with stores A = 100, B = 90, C = 120 saved, '2' at the top level shows B
\* and awaits the confirmation of the purchase at B
C23_Witness ==
    /\ Handled
    /\ last.branch = "menu"
    /\ last.text = "2"
    /\ last.listed = <<"B">>
    /\ conversation_state[last.user].awaiting_purchase_confirmation = "B"
    /\ Len(conversation_state[last.user].store_totals) = 3

\* the awaiting flags set in a user's state
AwaitingFlags(state) ==
    {flag \in {"awaiting_clarification", "awaiting_store_selection",
               "awaiting_purchase_confirmation"} :
        IF flag = "awaiting_purchase_confirmation" THEN state[flag] # ""
        ELSE Get(state, flag, FALSE)}

\* C24: in every reachable ConversationState at most one of
\* awaiting_clarification, awaiting_store_selection and
\* awaiting_purchase_confirmation is set, also when interactive replies
\* interleave with a debounced processing run of the same user.
C24_AtMostOneAwaitingFlag ==
    \A u \in Users :
        has_active_state(u) => Cardinality(AwaitingFlags(conversation_state[u])) <= 1

\* the replies that announce the return to the top-level menu
ReturnsToMenu(reply) ==
    reply \in {"Voltando ao menu principal.",
               "Voltando ao menu principal. all_stores_details"}

\* C25: a user's ConversationState comes into being only with the user's
\* first interactive use, a budget with its menu or a clarification
\* question, never bare; and once a text has finalized a purchase or
\* been answered with the return to the menu the user has no
\* ConversationState.
C25_CreatedByInteractiveUseClearedOnReturn ==
    [][/\ \A u \in Users :
             (~has_active_state(u) /\ conversation_state'[u] # NoneValue)
                 => conversation_state'[u] # NewState
       /\ (last = NoLast /\ last' # NoLast
              /\ (last'.finalized # "" \/ ReturnsToMenu(last'.reply)))
             => conversation_state'[last'.user] = NoneValue]_vars

\* ------------------------------ process_message: interactive or queued
\* C26: when ChatbotService.process_message has got an interactive reply
\* for a text, its return leaves the pending messages, the persisted turns
\* and the calls being debounced as they were, so that the text is not
\* recorded, no processing is scheduled and no AI reply is generated for
\* it, and sends nothing but that reply; a call is queued for debouncing
\* only by a process_message whose text got no interactive reply.
C26_InteractiveReplyNotQueued ==
    [][/\ (last # NoLast /\ last.reply # "" /\ last' = NoLast) =>
             /\ UNCHANGED <<inbound, temp_messages, conversation_context, requests>>
             /\ outbox' \subseteq outbox \cup {[user |-> last.user, text |-> <<last.reply>>]}
       /\ Len(requests') > Len(requests) =>
             /\ last # NoLast /\ last.reply = ""
             /\ requests'[Len(requests')].user = last.user]_vars

\* '3' was answered with the list of stores while an earlier text of the
\* user is still pending, and nothing more is pending after it
C26_Witness ==
    /\ last = NoLast
    /\ \E u \in Users :
          /\ has_active_state(u)
          /\ conversation_state[u].awaiting_store_selection
          /\ [user |-> u, text |-> <<"all_stores_details">>] \in outbox
          /\ Len(requests) = 1
          /\ Len(temp_messages) = 1

\* ------------------------------------ tool loop: signatures and turns
\* the for loop comes to a call of the response
Reaches == tool_index' # tool_index /\ tool_index' > 0
\* the key/value pairs of a JSON text of arguments, whatever their order
PairsOf(text) == {text.pairs[i] : i \in 1..Len(text.pairs)}
\* the call has the signature sig: the same tool name and the same pairs
SameCall(tool_call, sig) ==
    /\ sig[1] = tool_call.name
    /\ Range(sig[2]) = PairsOf(tool_call.arguments)
    /\ Len(sig[2]) = Cardinality(PairsOf(tool_call.arguments))
AmongLastThree(tool_call) ==
    \E k \in 1..Len(tool_call_history) :
        k > Len(tool_call_history) - 3 /\ SameCall(tool_call, tool_call_history[k])

\* C27: when the for loop of _process_with_mcp comes to a requested call
\* whose arguments are JSON, the call is executed, its signature being
\* added to the history, if and only if no call with the same tool name and
\* the same arguments, in whatever key order, is among the last three
\* executed in the turn; otherwise the turn ends at once with the 'please
\* rephrase' message, and neither that call nor a later call of the
\* response is executed: nothing is added to the history or to the message
\* list after the turn has ended.
C27_ExecutedIffNotAmongLastThree ==
    [][/\ (Reaches /\ tool_calls'[tool_index'].arguments.valid) =>
             LET tool_call == tool_calls'[tool_index']
             IN IF AmongLastThree(tool_call)
                THEN /\ mcp_pc' = "ABORTED"
                     /\ mcp_result' = Rephrase
                     /\ tool_call_history' = tool_call_history
                ELSE /\ mcp_pc' = "EXECUTING_TOOLS"
                     /\ Len(tool_call_history') = Len(tool_call_history) + 1
                     /\ SubSeq(tool_call_history', 1, Len(tool_call_history)) = tool_call_history
                     /\ SameCall(tool_call, tool_call_history'[Len(tool_call_history')])
       /\ Len(tool_call_history') > Len(tool_call_history) => Reaches
       /\ (Ended /\ mcp_pc' # "AWAITING_MODEL") =>
             UNCHANGED <<tool_call_history, messages, tool_index, mcp_pc>>]_vars

\* get_cheapest_product was executed with category before name and is
\* requested again with name before category, a further call following it
\* in the response: the turn stops at the repeated call
C27_Witness ==
    /\ LoopDetected
    /\ tool_index < Len(tool_calls)
    /\ tool_calls[tool_index].arguments.pairs = <<<<"name", "n">>, <<"category", "c">>>>
    /\ tool_call_history = <<loop_signature>>
    /\ loop_signature[2] = <<<<"category", "c">>, <<"name", "n">>>>
    /\ Len(messages) = 1

\* C28: the history loop detection looks at is that of the turn: a turn
\* begins with an empty history and leaves the stored messages and states
\* of the users as they are, also when the turn before it was stopped by
\* loop detection or by the round cap; the first call of a turn is
\* executed whatever earlier turns executed; and a call that stops a turn
\* repeats a call executed in that same turn.
C28_HistoryScopedToTurn ==
    [][/\ (Ended /\ mcp_pc' = "AWAITING_MODEL") =>
             /\ tool_call_history' = <<>>
             /\ iteration' = 1
             /\ UNCHANGED <<conversation_state, conversation_context, temp_messages, inbound>>
       /\ (Reaches /\ tool_calls'[tool_index'].arguments.valid) =>
             LET tool_call == tool_calls'[tool_index']
             IN /\ tool_call_history = <<>> =>
                      /\ mcp_pc' = "EXECUTING_TOOLS"
                      /\ tool_call_history' = <<SignatureOf(tool_call)>>
                /\ mcp_result' = Rephrase =>
                      \E k \in 1..Len(tool_call_history) :
                          SameCall(tool_call, tool_call_history[k])]_vars

\* the turn before was stopped by loop detection; the present turn
\* executes the call that turn, and the latest turn of the other user,
\* executed last
C28_Witness ==
    /\ mcp_pc = "EXECUTING_TOOLS"
    /\ earlier.ended = Rephrase
    /\ Len(tool_call_history) = 1
    /\ \A u \in TurnUsers : tool_call_history[1] = earlier.executed[u]

\* ------------------------------------- clarification: after each reply
Budget == "Todos os produtos selecionados! ORCAMENTO FINAL"

\* C29: once _handle_product_clarification has processed a reply, if
\* categories of the pending products are still unresolved then
\* awaiting_clarification stays set and the reply asks about the next one;
\* if none is, the reply is the consolidated budget, store_totals is
\* that of the selected products and no awaiting flag is set, so that the
\* next text goes to the top-level menu.
C29_RepromptWhileUnresolvedThenBudget ==
    (Handled /\ last.branch = "clarification" /\ last.marked # ""
        /\ has_active_state(last.user)) =>
        LET state == conversation_state[last.user]
        IN IF Unresolved(state) # {}
           THEN /\ state.awaiting_clarification
                /\ last.reply = "Produto adicionado!"
           ELSE /\ last.reply = Budget
                /\ state.store_totals = store_totals_of(state.selected_products)
                /\ AwaitingFlags(state) = {}

\* -------------------------------------- the analysis that cannot be read
\* C30: an analysis whose call fails or whose answer is not JSON gives 'no
\* clarification needed', whatever the products; and the clarification
\* reply whose analysis went so is answered, with the budget or, the
\* saving or formatting of the budget failing, with the apology, and the
\* user is asked nothing more: awaiting_clarification is reset.
C30_UnreadableAnalysisMeansNoClarification ==
    /\ \A products \in FoundLists \cup {AllProducts}, answer \in AiAnswers :
          (answer.raised \/ ~answer.json) =>
              /\ DOMAIN analyze_product_variations(products, answer)
                     = {"needs_clarification", "message"}
              /\ ~analyze_product_variations(products, answer).needs_clarification
    /\ (Handled /\ last.branch = "clarification"
           /\ last.analysis \in {"failed", "unparsable"}) =>
          /\ last.reply \in {Budget, Apology}
          /\ last.handlers = <<"_handle_product_clarification">>
          /\ has_active_state(last.user)
          /\ ~conversation_state[last.user].awaiting_clarification

\* the call of the analysis failed after the reply to the first question:
\* the reply is answered with the budget
C30_Witness ==
    /\ Handled
    /\ last.branch = "clarification"
    /\ last.analysis = "failed"
    /\ last.reply = Budget
    /\ ~conversation_state[last.user].awaiting_clarification
    /\ conversation_state[last.user].store_totals # <<>>

\* ----------------------------------------- the end of a timer task
\* the step ends the timer task of generation g
Ends(u, g) == Task(u, g).pc # "done" /\ tasks'[u][g].pc = "done"

\* C31: when the timer task of generation g ends (its call returned, an
\* awaited call of process_debounced_messages raised, or it was cancelled)
\* while g is the user's entry in pending_tasks, the entry is removed; when
\* the entry is of another generation it is left as it is; and the task
\* whose callback raised takes one step of its own, the logging of the
\* exception and the cleanup, which ends it.
C31_EntryRemovedOnlyByItsGeneration ==
    [][\A u \in Users : \A g \in Generations(u) :
          /\ Ends(u, g) =>
                pending_tasks'[u] = IF pending_tasks[u] = g THEN 0 ELSE pending_tasks[u]
          /\ (Task(u, g).pc = "raising" /\ tasks'[u][g] # Task(u, g)
                 /\ ~tasks'[u][g].cancelled) =>
                /\ Ends(u, g)
                /\ temp_messages' = temp_messages
                /\ conversation_context' = conversation_context]_vars

\* the first timer was superseded and ended by cancellation with the entry of
\* the second left in place; the second fetched, its reply generation raised,
\* and its entry is gone
C31_Witness ==
    \E u \in Users :
        /\ Len(tasks[u]) = 2
        /\ Task(u, 1).cancelled /\ Task(u, 1).pc = "done"
        /\ Task(u, 2).pc = "done" /\ ~Task(u, 2).cancelled
        /\ Task(u, 2).called /\ Task(u, 2).fetched # <<>> /\ ~Task(u, 2).replied
        /\ pending_tasks[u] = 0

\* ------------------------------- ConversationManager: the debounce timer
TimersOf(u) == {i \in Timers : conversation_manager.timers[i].user = u}
Timer(i) == conversation_manager.timers[i]
\* every call for the user came less than debounce_delay after the call before
InBurst(u) ==
    \A i, j \in TimersOf(u) :
        (i < j /\ ~\E k \in TimersOf(u) : i < k /\ k < j) =>
            Timer(j).started - Timer(i).started < debounce_delay
LastCall(u) == CHOOSE i \in TimersOf(u) : \A j \in TimersOf(u) : j <= i

\* C32 as stated: after calls of start_debounce_timer for one user, each made
\* less than debounce_delay after the one before, the callback is invoked by
\* the task of the last call only, not earlier than debounce_delay after
\* that call, and the task of the last call does not end without having
\* invoked it; a task whose callback raised ended with the exception logged.
C32_CallbackOnceAfterLastCall ==
    \A u \in Users :
        (TimersOf(u) # {} /\ InBurst(u)) =>
            /\ \A i \in TimersOf(u) :
                  Timer(i).invoked_at # -1 =>
                      /\ i = LastCall(u)
                      /\ Timer(i).invoked_at >= Timer(i).started + debounce_delay
            /\ Timer(LastCall(u)).pc = "done" => Timer(LastCall(u)).invoked_at # -1
            /\ \A i \in TimersOf(u) : Timer(i).logged => Timer(i).pc = "done" /\ ~Timer(i).cancelled

\* ------------------------------ process_message_async: which path it takes
\* C33 as stated: process_message_async answers at once (welcome and AI
\* reply, strategy 'immediate') only the first message of the day; for a
\* later message it starts the debounce timer, sends no AI reply and
\* returns the strategy 'debounced'.
C33_LaterMessagesDebounced ==
    LET result == conversation_manager.result
    IN (result # NoneValue /\ result.status = "success") =>
          IF result.is_first_today
          THEN result.strategy = "immediate" /\ result.sent = <<Welcome, AiReply>>
          ELSE /\ result.strategy = "debounced"
               /\ result.timer
               /\ result.sent = <<>>

\* ------------------------------------------- what a run deletes
\* the rows the step removes from the store
Removed == Range(temp_messages) \ Range(temp_messages')

\* C34: a processing run deletes exactly the pending messages it fetched at
\* its start (a message recorded for the user after the fetch is not
\* deleted by that run and stays pending), so that every recorded message is
\* either still pending or was fetched by a run that consolidated what it
\* fetched and reached the delete.
C34_DeletesExactlyWhatItFetched ==
    /\ [](\A m \in 1..Len(inbound) :
             m \in Range(temp_messages)
             \/ \E u \in Users : \E g \in Generations(u) :
                   /\ m \in Range(Task(u, g).fetched)
                   /\ Task(u, g).consolidated # NoneValue
                   /\ Task(u, g).deleted)
    /\ [][Removed # {} =>
             \E u \in Users : \E g \in Generations(u) :
                /\ Task(u, g).pc = "log_reply" /\ tasks'[u][g].deleted
                /\ Removed = Range(Task(u, g).fetched) \cap Range(temp_messages)
                /\ \A m \in Range(temp_messages) \ Range(Task(u, g).fetched) :
                      m \in Range(temp_messages')]_vars

\* a run fetched the first message, the second was recorded while the run
\* was in flight, and the run deleted the first only
C34_Witness ==
    \E u \in Users : \E g \in Generations(u) :
        /\ Task(u, g).fetched = <<1>> /\ Task(u, g).deleted
        /\ Len(inbound) = 2
        /\ inbound[2].user = u
        /\ temp_messages = <<2>>

\* ------------------------------------ tool loop: the list the provider gets
\* the list from its latest assistant message on: that message, then one
\* result for each of its tool calls, with the call's id, in request order
WellFormed(msgs) ==
    msgs # <<>> =>
        /\ msgs[1].role = "assistant"
        /\ Len(msgs) = 1 + Len(msgs[1].tool_calls)
        /\ \A k \in 1..Len(msgs[1].tool_calls) :
              /\ msgs[k + 1].role = "tool"
              /\ msgs[k + 1].tool_call_id = msgs[1].tool_calls[k]
              /\ \A j \in 1..Len(msgs[1].tool_calls) :
                    msgs[1].tool_calls[j] = msgs[1].tool_calls[k] => j = k

\* C35: at every call of the AI provider in _process_with_mcp the running
\* message list is well formed: each tool request of an assistant message
\* has exactly one tool-result message with its tool_call_id, after the
\* assistant message and in request order.  (What precedes the latest
\* assistant message was the list of an earlier call and is not changed.)
C35_ListWellFormedAtProviderCall ==
    mcp_pc = "AWAITING_MODEL" => WellFormed(messages)

\* the provider is called again after a round of two tool calls
C35_Witness ==
    /\ mcp_pc = "AWAITING_MODEL"
    /\ iteration >= 2
    /\ Len(messages) = 3
    /\ messages[1].tool_calls = <<tool_call_id(iteration - 1, 1), tool_call_id(iteration - 1, 2)>>

\* ------------------------------- the store whose confirmation is awaited
\* C36 as stated: whenever the purchase confirmation is awaited for a store,
\* selected_store_data is the entry that store has in the current
\* store_totals, so that the purchase finalized on confirmation is that of
\* the budget saved last, also when a debounced run saved new store_totals
\* after the store was shown.
C36_SelectedStoreIsCurrentEntry ==
    \A u \in Users :
        (has_active_state(u) /\ conversation_state[u].awaiting_purchase_confirmation # "") =>
            LET state == conversation_state[u]
            IN \E i \in 1..Len(state.store_totals) :
                  /\ state.store_totals[i].name = state.awaiting_purchase_confirmation
                  /\ state.store_totals[i] = state.selected_store_data

\* ------------------------------------- top-level digits without a budget
\* C37 as stated: a top-level digit ('0', '1', '2', '3': nothing is awaited)
\* sent by a user whose store_totals is empty, as after a debounced turn
\* that saved no budget, gets no interactive reply and leaves the state as
\* it is: process_message queues it for the AI.
C37_TopLevelDigitNeedsBudget ==
    [][(/\ last = NoLast /\ last' # NoLast
        /\ last'.text \in {"0", "1", "2", "3"}
        /\ AwaitingFlags(Before) = {}
        /\ Before.store_totals = <<>>) =>
           /\ last'.reply = ""
           /\ conversation_state' = conversation_state]_vars

\* ------------------------------------- clarification: the retry apology
\* C38 as stated: when _handle_product_clarification fails with an exception
\* and answers with the retry apology, the user's ConversationState
\* (selected_products, clarified_categories, current_category,
\* awaiting_clarification) is as it was before the reply, so that the same
\* answer given again adds its product once.
C38_ApologyLeavesStateUnchanged ==
    [][(Handles("clarification") /\ last'.reply = Apology) =>
          conversation_state' = conversation_state]_vars

\* ----------------------------------------------- the daily greeting
Greeted(u, date) ==
    {i \in 1..Len(requests) :
        requests[i].user = u /\ requests[i].greeted /\ LocalDate(requests[i].now) = date}

\* C39 as stated: the webhook of app/main.py sends a user the daily greeting
\* at most once per local day, also when two messages of a user with no
\* earlier message that day are handled by two webhook calls at a time.
C39_GreetingAtMostOncePerDay ==
    \A u \in Users : \A i \in 1..Len(requests) :
        Cardinality(Greeted(u, LocalDate(requests[i].now))) <= 1

====
